---- MODULE Spec2Model ----
(***************************************************************************)
(* A model of the url-scanner service:                                     *)
(*   - the cooperative rate limiter of internal/worker/urlscanner.go       *)
(*     (reserveRL / requestFinished / Work), checked under SpecRL;         *)
(*   - the enqueue pipeline, the scan fan-in and the queue job life cycle  *)
(*     of internal/scanner/scanner.go and pkg/storage/postgres, checked    *)
(*     under Spec;                                                         *)
(*   - single functions followed call by call: PgSQL.WithTx (SpecTx),      *)
(*     Handler.NewError (SpecAPI), NormalizeURL (SpecNorm) and             *)
(*     PgSQL.UserScans (SpecPage).                                         *)
(* Time is a discrete clock `now`; instants are natural numbers and the    *)
(* zero time.Time is ZeroTime.                                             *)
(***************************************************************************)
EXTENDS Integers, Sequences, FiniteSets, TLC

VARIABLES
    now,               \* the wall clock, shared by worker, provider and queue
    \* ---- rate limiter (URLScannerWorker) ----
    lastRLStatus,      \* u.lastRLStatus: NoStatus (nil) or a RateLimitStatus
    inFlightRequests,  \* u.inFlightRequests
    wpc,               \* position of every Work invocation (goroutine)
    wResetAt,          \* resetAt captured by a waiter before it unlocks
    wStatus,           \* RateLimitStatus the Scan of a worker returned
    wResp,             \* what the provider answered to the worker's submit
    wGrantReal,        \* the worker's reservation was granted on a learned status
    provWindow,        \* provider: index of the window its counter belongs to
    provRemaining,     \* provider: true remaining budget of that window
    learned,           \* some requestFinished adopted a real status
    wRet,              \* what the worker's Work invocation returned
    wLog,              \* the record reserveRL logged before its select
    \* ---- storage, queue and scanner service ----
    scans,             \* the scans table: id -> row, NoScan for an unused id
    jobs,              \* the queue's job table: id -> job, NoJob for an unused id
    enq,               \* the Enqueue calls in progress, one per API client
    \* ---- single calls of functions checked on their own ----
    wtx,               \* a call of PgSQL.WithTx: inputs, position, writes, result
    api,               \* a call of Handler.NewError: the error and the response
    norm,              \* NormalizeURL applied to a string and to its own output
    page,              \* a call of PgSQL.UserScans: table, arguments, result
    upd,               \* a call of PgSQL.UpdatePendingScansByURL: table, arguments, result
    poll,              \* a call of scanner.submitURLAndPoll: position, clock, counters, result
    sub,               \* a call of the urlscan client's SubmitURL: the response and the result
    walk               \* a client following the next-cursor of scanner.UserScans page by page

rlVars == <<lastRLStatus, inFlightRequests, wpc, wResetAt, wStatus, wResp,
            wGrantReal, provWindow, provRemaining, learned, wRet, wLog>>

scanVars == <<scans, jobs, enq>>

fnVars == <<wtx, api, norm, page, upd, poll, sub, walk>>

vars == <<now, rlVars, scanVars, fnVars>>

----------------------------------------------------------------------------
(* Bounds of the model *)
MaxPollDuration == 16
MaxFailedPolls == 12
MaxWalkTicks == 2
MaxTime == 3
NumWorkers == 3
ProvLimit == 2
WindowLen == 2

(* The zero value of time.Time (ResetAt.IsZero()) *)
ZeroTime == 0

Workers == 1..NumWorkers

NoStatus == [limit |-> -1, remaining |-> -1, resetAt |-> ZeroTime]

\* urlscanner.RateLimitStatus{}: what Scan returns when it never reached the provider
ZeroStatus == [limit |-> 0, remaining |-> 0, resetAt |-> ZeroTime]

RateLimitStatus(l, r, t) == [limit |-> l, remaining |-> r, resetAt |-> t]

\* a reset a year ahead: beyond every instant of the model
FarFuture == MaxTime + 1

----------------------------------------------------------------------------
(* The provider: a fixed-window counter.  Window k covers the instants     *)
(* k*WindowLen .. (k+1)*WindowLen - 1 and reports (k+1)*WindowLen as Reset. *)
WindowOf(t) == t \div WindowLen
ResetOf(k) == (k + 1) * WindowLen

\* true remaining budget of the window that holds instant t
ProvTrueRemaining(t) ==
    IF provWindow = WindowOf(t) THEN provRemaining ELSE ProvLimit

----------------------------------------------------------------------------
\* faulty variant: the full limit is taken as the budget at every instant
EffectiveRemainingAlwaysLimit(st, t) == st.limit

(* reserveRL, lines 216-220: the effective remaining budget *)
EffectiveRemaining(st, t) ==
    IF t > st.resetAt THEN st.limit ELSE st.remaining

\* faulty variant: the cold start assumes the provider's full limit
SeedStatusFullLimit(st, t) ==
    IF st = NoStatus THEN RateLimitStatus(ProvLimit, ProvLimit, t + FarFuture) ELSE st

\* reserveRL, lines 205-214: the synthetic status of a cold start
SeedStatus(st, t) ==
    IF st = NoStatus THEN RateLimitStatus(1, 1, t + FarFuture) ELSE st

\* faulty variant: the budget check off by one: >= instead of >
CanReserveOffByOne(st, inflight, t) ==
    EffectiveRemaining(st, t) - inflight >= 0

\* reserveRL, line 223: may a reservation be granted
CanReserve(st, inflight, t) ==
    EffectiveRemaining(st, t) - inflight > 0

\* faulty variant: within a window the last response wins
MergeStatusLastWins(last, new) ==
    IF new.resetAt = ZeroTime THEN last
    ELSE new

\* faulty variant: a response without rate-limit information is adopted too
MergeStatusAdoptsZero(last, new) ==
    IF last = NoStatus THEN new
    ELSE IF last.resetAt # new.resetAt THEN new
    ELSE IF new.remaining < last.remaining THEN new
    ELSE last

\* requestFinished, lines 153-186: the conservative merge
MergeStatus(last, new) ==
    IF new.resetAt = ZeroTime THEN last
    ELSE IF last = NoStatus THEN new
    ELSE IF last.resetAt # new.resetAt THEN new
    ELSE IF new.remaining < last.remaining THEN new
    ELSE last

\* faulty variant: the reservation is not released
DecInFlightKeeps(n) == n

\* requestFinished, lines 139-144: decrement with the defensive clamp
DecInFlight(n) == IF n > 0 THEN n - 1 ELSE 0

\* Work has not returned (or was never called)

\* Work, lines 99-103: reserveRL failed, Work returns the wrapped error
\* "could not reserve rate limit: ...", which is neither river.JobCancel nor
\* river.JobSnooze: the outcome the queue runtime sees is a plain error
WorkReturn_ReserveErr == "error"

\* reserveRL, lines 240-244: the fields of the "waiting for rate limit slot"
\* record that are read from the worker after the unlock of line 238
WaitingLog(last, inFlight) ==
    [limit |-> last.limit, resetAt |-> last.resetAt, inFlight |-> inFlight]

NoLog == [limit |-> 0, resetAt |-> ZeroTime, inFlight |-> 0]

----------------------------------------------------------------------------
InitRL ==
    /\ lastRLStatus = NoStatus
    /\ inFlightRequests = 0
    /\ wpc = [w \in Workers |-> "idle"]
    /\ wResetAt = [w \in Workers |-> ZeroTime]
    /\ wStatus = [w \in Workers |-> ZeroStatus]
    /\ wResp = [w \in Workers |-> "none"]
    /\ wGrantReal = [w \in Workers |-> FALSE]
    /\ provWindow = 0
    /\ provRemaining = ProvLimit
    /\ learned = FALSE
    /\ wRet = [w \in Workers |-> "running"]
    /\ wLog = [w \in Workers |-> NoLog]

\* the clock advances
Tick ==
    /\ now < MaxTime
    /\ now' = now + 1
    /\ UNCHANGED <<fnVars, rlVars, scanVars>>

\* the queue runtime calls Work for a job (Work, line 95)
WorkStart(w) ==
    /\ wpc[w] = "idle"
    /\ wpc' = [wpc EXCEPT ![w] = "reserve"]
    /\ wRet' = [wRet EXCEPT ![w] = "running"]
    /\ UNCHANGED <<fnVars, wLog, now, lastRLStatus, inFlightRequests, wResetAt, wStatus, wResp,
                   wGrantReal, provWindow, provRemaining, learned, scanVars>>

\* reserveRL, lines 203-233: one pass of the loop under the mutex, granted
reserveRLGrant(w) ==
    /\ wpc[w] = "reserve"
    /\ LET st == SeedStatus(lastRLStatus, now) IN
        /\ CanReserve(st, inFlightRequests, now)
        /\ lastRLStatus' = st
        /\ inFlightRequests' = inFlightRequests + 1
        /\ wpc' = [wpc EXCEPT ![w] = "scan"]
        /\ wGrantReal' = [wGrantReal EXCEPT ![w] = learned]
    /\ UNCHANGED <<fnVars, wRet, wLog, now, wResetAt, wStatus, wResp, provWindow, provRemaining, learned, scanVars>>

\* reserveRL, lines 203-238: one pass of the loop under the mutex, no budget:
\* capture resetAt and unlock
reserveRLBlock(w) ==
    /\ wpc[w] = "reserve"
    /\ LET st == SeedStatus(lastRLStatus, now) IN
        /\ ~CanReserve(st, inFlightRequests, now)
        /\ lastRLStatus' = st
        /\ wResetAt' = [wResetAt EXCEPT ![w] = st.resetAt]
        /\ wpc' = [wpc EXCEPT ![w] = "unlocked"]
    /\ UNCHANGED <<fnVars, wRet, wLog, now, inFlightRequests, wStatus, wResp, wGrantReal,
                   provWindow, provRemaining, learned, scanVars>>

\* reserveRL, lines 240-246: after the unlock of line 238 the waiter writes the
\* "waiting for rate limit slot" record, for which it reads u.lastRLStatus and
\* u.inFlightRequests again, then reaches the select and starts receiving
reserveRLSelect(w) ==
    /\ wpc[w] = "unlocked"
    /\ wpc' = [wpc EXCEPT ![w] = "waiting"]
    /\ wLog' = [wLog EXCEPT ![w] = WaitingLog(lastRLStatus, inFlightRequests)]
    /\ UNCHANGED <<fnVars, wRet, now, lastRLStatus, inFlightRequests, wResetAt, wStatus, wResp,
                   wGrantReal, provWindow, provRemaining, learned, scanVars>>

\* reserveRL, lines 252-254: the timer set for the captured resetAt fires
reserveRLTimer(w) ==
    /\ wpc[w] = "waiting"
    /\ now >= wResetAt[w]
    /\ wpc' = [wpc EXCEPT ![w] = "reserve"]
    /\ wResetAt' = [wResetAt EXCEPT ![w] = ZeroTime]
    /\ wLog' = [wLog EXCEPT ![w] = NoLog]
    /\ UNCHANGED <<fnVars, wRet, now, lastRLStatus, inFlightRequests, wStatus, wResp,
                   wGrantReal, provWindow, provRemaining, learned, scanVars>>

\* faulty variant: the context is looked at only once the timer is due
reserveRLCancelledAfterTimer(w) ==
    /\ wpc[w] = "waiting"
    /\ now >= wResetAt[w]
    /\ wpc' = [wpc EXCEPT ![w] = "idle"]
    /\ wResetAt' = [wResetAt EXCEPT ![w] = ZeroTime]
    /\ wLog' = [wLog EXCEPT ![w] = NoLog]
    /\ wRet' = [wRet EXCEPT ![w] = WorkReturn_ReserveErr]
    /\ UNCHANGED <<fnVars, now, lastRLStatus, inFlightRequests, wStatus, wResp,
                   wGrantReal, provWindow, provRemaining, learned, scanVars>>

\* faulty variant: the failed reservation is given back as if it had been made
reserveRLCancelledReleases(w) ==
    /\ wpc[w] = "waiting"
    /\ wpc' = [wpc EXCEPT ![w] = "idle"]
    /\ wResetAt' = [wResetAt EXCEPT ![w] = ZeroTime]
    /\ inFlightRequests' = DecInFlight(inFlightRequests)
    /\ wLog' = [wLog EXCEPT ![w] = NoLog]
    /\ wRet' = [wRet EXCEPT ![w] = WorkReturn_ReserveErr]
    /\ UNCHANGED <<fnVars, now, lastRLStatus, wStatus, wResp,
                   wGrantReal, provWindow, provRemaining, learned, scanVars>>

\* reserveRL, lines 247-248 and Work, lines 99-103: the job context is cancelled
reserveRLCancelled(w) ==
    /\ wpc[w] = "waiting"
    /\ wpc' = [wpc EXCEPT ![w] = "idle"]
    /\ wResetAt' = [wResetAt EXCEPT ![w] = ZeroTime]
    /\ wLog' = [wLog EXCEPT ![w] = NoLog]
    /\ wRet' = [wRet EXCEPT ![w] = WorkReturn_ReserveErr]
    /\ UNCHANGED <<fnVars, now, lastRLStatus, inFlightRequests, wStatus, wResp,
                   wGrantReal, provWindow, provRemaining, learned, scanVars>>

\* Scan returns before it reaches the provider (CONFLICT, storage error):
\* scanner.Scan lines 200-208, the status is RateLimitStatus{}
ScanNoSubmit(w) ==
    /\ wpc[w] = "scan"
    /\ wpc' = [wpc EXCEPT ![w] = "finish"]
    /\ wStatus' = [wStatus EXCEPT ![w] = ZeroStatus]
    /\ wResp' = [wResp EXCEPT ![w] = "none"]
    /\ UNCHANGED <<fnVars, wRet, wLog, now, lastRLStatus, inFlightRequests, wResetAt, wGrantReal,
                   provWindow, provRemaining, learned, scanVars>>

\* Scan submits the URL (submitURLAndPoll, line 256); the provider counts the
\* request against the window of `now` and reports its headers
ScanSubmit(w) ==
    /\ wpc[w] = "scan"
    /\ LET k == WindowOf(now)
           rem == ProvTrueRemaining(now) IN
        /\ provWindow' = k
        /\ IF rem > 0
           THEN /\ provRemaining' = rem - 1
                /\ wStatus' = [wStatus EXCEPT ![w] = RateLimitStatus(ProvLimit, rem - 1, ResetOf(k))]
                /\ wResp' = [wResp EXCEPT ![w] = "accepted"]
           ELSE /\ provRemaining' = 0
                /\ wStatus' = [wStatus EXCEPT ![w] = RateLimitStatus(ProvLimit, 0, ResetOf(k))]
                /\ wResp' = [wResp EXCEPT ![w] = "429"]
    /\ wpc' = [wpc EXCEPT ![w] = "finish"]
    /\ UNCHANGED <<fnVars, wRet, wLog, now, lastRLStatus, inFlightRequests, wResetAt, wGrantReal, learned, scanVars>>

\* the waiter a non-blocking send on requestFinishedChan reaches: one of the
\* goroutines receiving in the select, none when nobody receives
WakeTargets == {w \in Workers : wpc[w] = "waiting"}

\* faulty variant: every goroutine receiving in the select is woken
requestFinishedBroadcast(w) ==
    /\ wpc[w] = "finish"
    /\ inFlightRequests' = DecInFlight(inFlightRequests)
    /\ lastRLStatus' = MergeStatus(lastRLStatus, wStatus[w])
    /\ learned' = (learned \/ wStatus[w].resetAt # ZeroTime)
    /\ wpc' = [v \in Workers |->
                 IF v = w THEN "idle"
                 ELSE IF v \in WakeTargets THEN "reserve" ELSE wpc[v]]
    /\ wResetAt' = [v \in Workers |-> IF v \in WakeTargets THEN ZeroTime ELSE wResetAt[v]]
    /\ wLog' = [v \in Workers |-> IF v \in WakeTargets THEN NoLog ELSE wLog[v]]
    /\ wStatus' = [wStatus EXCEPT ![w] = ZeroStatus]
    /\ wResp' = [wResp EXCEPT ![w] = "none"]
    /\ wGrantReal' = [wGrantReal EXCEPT ![w] = FALSE]
    /\ UNCHANGED <<fnVars, wRet, now, provWindow, provRemaining, scanVars>>

\* requestFinished, lines 135-187 (and the end of Work): decrement, wake, merge
requestFinished(w) ==
    /\ wpc[w] = "finish"
    /\ inFlightRequests' = DecInFlight(inFlightRequests)
    /\ lastRLStatus' = MergeStatus(lastRLStatus, wStatus[w])
    /\ learned' = (learned \/ wStatus[w].resetAt # ZeroTime)
    /\ \/ /\ WakeTargets = {}
          /\ wpc' = [wpc EXCEPT ![w] = "idle"]
          /\ UNCHANGED <<wResetAt, wLog>>
       \/ \E v \in WakeTargets :
             /\ wpc' = [wpc EXCEPT ![w] = "idle", ![v] = "reserve"]
             /\ wResetAt' = [wResetAt EXCEPT ![v] = ZeroTime]
             /\ wLog' = [wLog EXCEPT ![v] = NoLog]
    /\ wStatus' = [wStatus EXCEPT ![w] = ZeroStatus]
    /\ wResp' = [wResp EXCEPT ![w] = "none"]
    /\ wGrantReal' = [wGrantReal EXCEPT ![w] = FALSE]
    /\ UNCHANGED <<fnVars, wRet, now, provWindow, provRemaining, scanVars>>

NextRL ==
    \/ Tick
    \/ \E w \in Workers : WorkStart(w)
    \/ \E w \in Workers : reserveRLGrant(w)
    \/ \E w \in Workers : reserveRLBlock(w)
    \/ \E w \in Workers : reserveRLSelect(w)
    \/ \E w \in Workers : reserveRLTimer(w)
    \/ \E w \in Workers : reserveRLCancelled(w)
    \/ \E w \in Workers : ScanNoSubmit(w)
    \/ \E w \in Workers : ScanSubmit(w)
    \/ \E w \in Workers : requestFinished(w)


----------------------------------------------------------------------------
(* Storage, queue runtime and scanner service                              *)

MaxScans == 2
MaxScanSlots == 3
MaxCacheTime == 4
MaxJobs == 2
NumClients == 2
\* scanner.Options: MaxAttempts and ResultCacheTTL (in clock ticks)
MaxAttempts == 2
ResultCacheTTL == 2

\* the ids of the scans table; Spec stores at most MaxScans scans
ScanIDs == 1..MaxScanSlots
JobIDs == 1..MaxJobs
Clients == 1..NumClients
Users == {"u1", "u2"}
\* the authenticated user of an API client
UserOf(c) == IF c = 1 THEN "u1" ELSE "u2"
URLs == {"a"}
Results == {"R1", "R2"}

\* domain.ScanStatus
ScanStatusPending == "PENDING"
ScanStatusCompleted == "COMPLETED"
ScanStatusFailed == "FAILED"

NoScan == [status |-> "none"]
NoJob == [state |-> "none"]
\* the zero domain.ScanResult ('{}' in the result column)
NoResult == "none"
\* no transaction: the row is committed
Committed == 0

\* rivertype.JobState values the uniqueness of JobArgs.InsertOpts covers
UniqueStates == {"available", "completed", "pending", "running", "retryable", "scheduled"}
\* a job the queue may still run
LiveStates == {"available", "pending", "running", "retryable", "scheduled"}

\* the period the queue rounds an insert time down to (UniqueOpts.ByPeriod)
PeriodOf(t) == t \div ResultCacheTTL

\* rows a statement outside any transaction sees (READ COMMITTED)
Visible(S, id) == S[id] # NoScan /\ S[id].tx = Committed
\* rows a statement of transaction c sees: the committed ones and its own
VisibleTo(S, id, c) == S[id] # NoScan /\ S[id].tx \in {Committed, c}

\* StoreScans: the row the insert generates (defaults of the scans table).
\* Rows are numbered in the order of their created_at.
\* job and jobAdded record what AddJob answered to the Enqueue that stored the row:
\* the job it inserted (jobAdded) or the job its insert was a duplicate of.
NewScanRow(user, url, c, job, jobAdded) ==
    [user |-> user, url |-> url, status |-> ScanStatusPending, result |-> NoResult,
     attempts |-> 0, lastError |-> "", updatedAt |-> ZeroTime,
     deleted |-> FALSE, tx |-> c, job |-> job, jobAdded |-> jobAdded]

\* the ids above every row stored so far
FreeScanIDs(S) == {id \in ScanIDs : \A o \in ScanIDs : o >= id => S[o] = NoScan}
FreeJobIDs(J) == {id \in JobIDs : J[id] = NoJob}
MinOf(set) == CHOOSE x \in set : \A y \in set : x <= y

\* faulty variant: the WHERE clause without its status filter
IsRowOfURL(S, id, url) ==
    /\ Visible(S, id)
    /\ S[id].url = url
    /\ ~S[id].deleted

\* faulty variant: the WHERE clause without deleted_at IS NULL
IsPendingRowWithDeleted(S, id, url) ==
    /\ Visible(S, id)
    /\ S[id].url = url
    /\ S[id].status = ScanStatusPending

\* faulty variant: the WHERE clause without url = $1
IsPendingRowAnyURL(S, id, url) ==
    /\ Visible(S, id)
    /\ S[id].status = ScanStatusPending
    /\ ~S[id].deleted

\* PgSQL.UpdatePendingScansByURL: which rows the WHERE clause selects
IsPendingRow(S, id, url) ==
    /\ Visible(S, id)
    /\ S[id].url = url
    /\ S[id].status = ScanStatusPending
    /\ ~S[id].deleted

\* faulty variant: the SET clause without attempts + 1
UpdatedRowKeepsAttempts(row, updates, t) ==
    [row EXCEPT
        !.updatedAt = t,
        !.status = updates.status,
        !.result = IF updates.hasResult THEN updates.result ELSE row.result,
        !.lastError = IF updates.hasLastError THEN updates.lastError ELSE row.lastError]

\* PgSQL.UpdatePendingScansByURL: the SET clause applied to one selected row.
\* updates models storage.ScanUpdates: Status, Result (nil when hasResult is FALSE),
\* LastError (nil when hasLastError is FALSE) and MaxAttempts
UpdatedRow(row, updates, t) ==
    [row EXCEPT
        !.updatedAt = t,
        !.attempts = row.attempts + 1,
        !.status = updates.status,
        !.result = IF updates.hasResult THEN updates.result ELSE row.result,
        !.lastError = IF updates.hasLastError THEN updates.lastError ELSE row.lastError]

\* PgSQL.UpdatePendingScansByURL
UpdatePendingScansByURL(S, url, updates, t) ==
    [id \in ScanIDs |->
        IF IsPendingRow(S, id, url) THEN UpdatedRow(S[id], updates, t) ELSE S[id]]

\* pendingScanCountByURL: PENDING non-deleted scans of the URL
PendingScanCountByURL(S, url) ==
    Cardinality({id \in ScanIDs : IsPendingRow(S, id, url)})

\* lastCompletedScanByURL, seen from transaction c: the most recent (created_at)
\* COMPLETED non-deleted scans of the URL; empty when there is none
LastCompletedScansByURL(S, url, c) ==
    LET done == {id \in ScanIDs :
                    /\ VisibleTo(S, id, c)
                    /\ S[id].url = url
                    /\ S[id].status = ScanStatusCompleted
                    /\ ~S[id].deleted}
    IN {id \in done : \A o \in done : o <= id}

\* updateScanByID(id, {status, result}) on a non-deleted row: only the provided
\* fields change, updated_at is set
UpdateScanByID(S, id, status, result, t) ==
    IF S[id] # NoScan /\ ~S[id].deleted
    THEN [S EXCEPT ![id].status = status, ![id].result = result, ![id].updatedAt = t]
    ELSE S

\* results of the scans of the URL a job completed less than ResultCacheTTL ago
FreshResults(S, url, t) ==
    {S[id].result : id \in {i \in ScanIDs :
        /\ Visible(S, i)
        /\ S[i].url = url
        /\ S[i].status = ScanStatusCompleted
        /\ ~S[i].deleted
        /\ S[i].attempts > 0
        /\ t - S[i].updatedAt < ResultCacheTTL}}

\* JobArgs.InsertOpts, UniqueOpts{ByArgs, ByPeriod, ByState}: the jobs an insert
\* of (url) at instant t is a duplicate of
DuplicateJobs(J, url, t) ==
    {j \in JobIDs :
        /\ J[j] # NoJob
        /\ J[j].url = url
        /\ J[j].period = PeriodOf(t)
        /\ J[j].state \in UniqueStates}

\* faulty variant: the insert bypasses the transaction: the job is visible at once
NewJobRowOutsideTx(url, c, t) ==
    [url |-> url, state |-> "available", attempt |-> 0, period |-> PeriodOf(t),
     tx |-> Committed, pc |-> "none", outcome |-> "none", result |-> NoResult,
     rl |-> ZeroStatus, sub |-> ZeroStatus, runAt |-> ZeroTime]

\* PgSQL.AddJob lines 223-236: the job row InsertTx creates inside transaction c
\* (MaxAttempts is carried by InsertOpts)
NewJobRow(url, c, t) ==
    [url |-> url, state |-> "available", attempt |-> 0, period |-> PeriodOf(t),
     tx |-> c, pc |-> "none", outcome |-> "none", result |-> NoResult,
     rl |-> ZeroStatus, sub |-> ZeroStatus, runAt |-> ZeroTime]

IdleEnq == [pc |-> "idle"]

InitScan ==
    /\ scans = [id \in ScanIDs |-> NoScan]
    /\ jobs = [j \in JobIDs |-> NoJob]
    /\ enq = [c \in Clients |-> IdleEnq]

\* no call of a function checked on its own is being followed
NoCall == [pc |-> "idle"]

\* everything at its initial value, but for the function v checked on its own:
\* the call followed is any of calls
InitBut(v, calls) ==
    /\ now = 1 /\ InitRL /\ InitScan
    /\ IF v = "wtx" THEN wtx \in calls ELSE wtx = NoCall
    /\ IF v = "api" THEN api \in calls ELSE api = NoCall
    /\ IF v = "norm" THEN norm \in calls ELSE norm = NoCall
    /\ IF v = "page" THEN page \in calls ELSE page = NoCall
    /\ IF v = "upd" THEN upd \in calls ELSE upd = NoCall
    /\ IF v = "poll" THEN poll \in calls ELSE poll = NoCall
    /\ IF v = "sub" THEN sub \in calls ELSE sub = NoCall
    /\ IF v = "walk" THEN walk \in calls ELSE walk = NoCall

Init == InitBut("none", {})

----------------------------------------------------------------------------
(* scanner.Enqueue, lines 60-116, one action per statement of the          *)
(* transaction                                                             *)

\* lines 62-85: NormalizeURL succeeded, WithTx begins, StoreScans inserts the
\* row and AddJob runs inside the transaction.  The new row is invisible to
\* every other transaction until Commit.  An insert whose unique key an
\* uncommitted insert of another transaction holds waits for that transaction.
\* (cap bounds the number of scans stored)
EnqueueStore(c, url, cap) ==
    /\ enq[c].pc = "idle"
    /\ FreeScanIDs(scans) \cap 1..cap # {}
    /\ LET id == MinOf(FreeScanIDs(scans))
           dups == DuplicateJobs(jobs, url, now)
           call == [pc |-> "commit", url |-> url, scan |-> id, jobAdded |-> TRUE,
                    fresh |-> FreshResults(scans, url, now) # {}]
       IN
        /\ \A j \in dups : jobs[j].tx \in {Committed, c}
        /\ IF dups = {}
           THEN /\ FreeJobIDs(jobs) # {}
                /\ LET j == MinOf(FreeJobIDs(jobs)) IN
                    /\ jobs' = [jobs EXCEPT ![j] = NewJobRow(url, c, now)]
                    /\ scans' = [scans EXCEPT ![id] = NewScanRow(UserOf(c), url, c, j, TRUE)]
                /\ enq' = [enq EXCEPT ![c] = call]
           ELSE /\ jobs' = jobs
                /\ scans' = [scans EXCEPT ![id] =
                                NewScanRow(UserOf(c), url, c, MinOf(dups), FALSE)]
                /\ enq' = [enq EXCEPT ![c] = [call EXCEPT !.pc = "lookup", !.jobAdded = FALSE]]
    /\ UNCHANGED <<fnVars, now, rlVars>>

EnqueueStoreAndAddJob(c, url) == EnqueueStore(c, url, MaxScans)

\* lines 89-108: the job is a duplicate: LastCompletedScanByURL, and
\* UpdateScanByID when a completed scan exists
EnqueueLookup(c) ==
    /\ enq[c].pc = "lookup"
    /\ LET last == LastCompletedScansByURL(scans, enq[c].url, c) IN
        IF last = {}
        THEN scans' = scans
        ELSE \E l \in last :
                scans' = UpdateScanByID(scans, enq[c].scan, ScanStatusCompleted,
                                        scans[l].result, now)
    /\ enq' = [enq EXCEPT ![c].pc = "commit"]
    /\ UNCHANGED <<fnVars, now, rlVars, jobs>>

\* lines 110-115 and WithTx lines 150-154: the callback returned nil, Commit
\* succeeds and Enqueue returns the scan
EnqueueCommit(c) ==
    /\ enq[c].pc = "commit"
    /\ scans' = [id \in ScanIDs |->
                    IF scans[id] # NoScan /\ scans[id].tx = c
                    THEN [scans[id] EXCEPT !.tx = Committed] ELSE scans[id]]
    /\ jobs' = [j \in JobIDs |->
                    IF jobs[j] # NoJob /\ jobs[j].tx = c
                    THEN [jobs[j] EXCEPT !.tx = Committed] ELSE jobs[j]]
    /\ enq' = [enq EXCEPT ![c] = IdleEnq]
    /\ UNCHANGED <<fnVars, now, rlVars>>

\* a statement or the commit returns an error: WithTx lines 144-148 roll back,
\* Enqueue returns the error (lines 111-113)
EnqueueError(c) ==
    /\ enq[c].pc \in {"lookup", "commit"}
    /\ scans' = [id \in ScanIDs |->
                    IF scans[id] # NoScan /\ scans[id].tx = c THEN NoScan ELSE scans[id]]
    /\ jobs' = [j \in JobIDs |->
                    IF jobs[j] # NoJob /\ jobs[j].tx = c THEN NoJob ELSE jobs[j]]
    /\ enq' = [enq EXCEPT ![c] = IdleEnq]
    /\ UNCHANGED <<fnVars, now, rlVars>>

\* faulty variant: the WHERE clause of DeleteScan without the user_id test
DeleteScanFoundAnyUser(S, user, id) ==
    /\ Visible(S, id)
    /\ ~S[id].deleted

\* PgSQL.DeleteScan lines 86-89: the row the WHERE clause finds (id, user_id,
\* deleted_at IS NULL)
DeleteScanFound(S, user, id) ==
    /\ Visible(S, id)
    /\ S[id].user = user
    /\ ~S[id].deleted

\* PgSQL.ScanByID lines 146-163: the row of that id and user that is not
\* soft-deleted, NoScan (nil) when there is none
ScanByID(S, user, id) ==
    IF Visible(S, id) /\ S[id].user = user /\ ~S[id].deleted THEN S[id] ELSE NoScan

\* PgSQL.UserScans lines 106-109: the rows the WHERE clause of a page matches
\* before the cursor and the limit cut it
UserScansMatch(S, user) ==
    {id \in ScanIDs : Visible(S, id) /\ S[id].user = user /\ ~S[id].deleted}

\* scanner.Result lines 150-160: the scan, or the NOT_FOUND error
Result(S, user, id) ==
    IF ScanByID(S, user, id) = NoScan
    THEN [err |-> "NOT_FOUND", msg |-> "scan not found", scan |-> NoScan]
    ELSE [err |-> "", msg |-> "", scan |-> ScanByID(S, user, id)]

\* scanner.Delete lines 165-178: what the service answers
DeleteResponse(S, user, id) ==
    IF DeleteScanFound(S, user, id)
    THEN [err |-> "", msg |-> ""]
    ELSE [err |-> "NOT_FOUND", msg |-> "scan not found"]

\* scanner.Delete, lines 165-178, PgSQL.DeleteScan lines 80-98: soft delete of
\* the user's own non-deleted scan
Delete(user, id) ==
    /\ DeleteScanFound(scans, user, id)
    /\ scans' = [scans EXCEPT ![id].deleted = TRUE]
    /\ UNCHANGED <<fnVars, now, rlVars, jobs, enq>>

----------------------------------------------------------------------------
(* The queue runtime and URLScannerWorker.Work on the storage side.  A job  *)
(* carries the position of the Work invocation that runs it.                *)

\* scanner.Scan line 214-218: the updates of a failed scan
FailedUpdates ==
    [status |-> ScanStatusFailed, hasResult |-> FALSE, result |-> NoResult,
     hasLastError |-> TRUE, lastError |-> "err", maxAttempts |-> MaxAttempts]

\* faulty variant: the updates of a successful scan without the result
CompletedUpdatesNoResult(r) ==
    [status |-> ScanStatusCompleted, hasResult |-> FALSE, result |-> NoResult,
     hasLastError |-> FALSE, lastError |-> "", maxAttempts |-> 0]

\* scanner.Scan line 227-230: the updates of a successful scan
CompletedUpdates(r) ==
    [status |-> ScanStatusCompleted, hasResult |-> TRUE, result |-> r,
     hasLastError |-> FALSE, lastError |-> "", maxAttempts |-> 0]

\* faulty variant: every failed scan marks the pending scans failed
MarksFailedAlways(kind) == TRUE

\* scanner.Scan lines 211-225: does a failed submit/poll mark the scans failed
MarksFailed(kind) == kind # "ratelimited"

\* scanner.Scan line 224 and submitURLAndPoll line 258: the status Scan returns
\* with the error is the one the submit response carried
ScanReturnStatus(st) == st

\* the headers a provider response carries
SubmitStatuses(t) == {RateLimitStatus(ProvLimit, 0, t + 1)}

RunningJob(j) == jobs[j] # NoJob /\ jobs[j].tx = Committed /\ jobs[j].state = "running"

\* the queue fetches an available job, counts the attempt and calls Work;
\* Work line 99: reserveRL returns nil
WorkReserved(j) ==
    /\ jobs[j] # NoJob /\ jobs[j].tx = Committed
    /\ jobs[j].state = "available"
    /\ jobs' = [jobs EXCEPT ![j].state = "running",
                            ![j].attempt = jobs[j].attempt + 1,
                            ![j].pc = "count"]
    /\ UNCHANGED <<fnVars, now, rlVars, scans, enq>>

\* the queue fetches an available job, counts the attempt and calls Work;
\* Work lines 99-103: the job context ends while reserveRL waits
WorkReserveFailed(j) ==
    /\ jobs[j] # NoJob /\ jobs[j].tx = Committed
    /\ jobs[j].state = "available"
    /\ jobs' = [jobs EXCEPT ![j].state = "running",
                            ![j].attempt = jobs[j].attempt + 1,
                            ![j].pc = "return", ![j].outcome = "error"]
    /\ UNCHANGED <<fnVars, now, rlVars, scans, enq>>

\* scanner.Scan lines 200-208: PendingScanCountByURL; no pending scan is CONFLICT
ScanCount(j) ==
    /\ RunningJob(j) /\ jobs[j].pc = "count"
    /\ IF PendingScanCountByURL(scans, jobs[j].url) <= 0
       THEN jobs' = [jobs EXCEPT ![j].pc = "return", ![j].outcome = "conflict",
                                 ![j].rl = ZeroStatus]
       ELSE jobs' = [jobs EXCEPT ![j].pc = "submit"]
    /\ UNCHANGED <<fnVars, now, rlVars, scans, enq>>

\* scanner.Scan lines 200-203: PendingScanCountByURL returned an error
ScanCountError(j) ==
    /\ RunningJob(j) /\ jobs[j].pc = "count"
    /\ jobs' = [jobs EXCEPT ![j].pc = "return", ![j].outcome = "error",
                            ![j].rl = ZeroStatus]
    /\ UNCHANGED <<fnVars, now, rlVars, scans, enq>>

\* scanner.Scan lines 210, 227-234: submit and poll succeeded with result r;
\* the fan-in update completes the pending scans (stored = FALSE: the update
\* returned an error, which Scan returns)
ScanSucceeds(j, r, st, stored) ==
    /\ RunningJob(j) /\ jobs[j].pc = "submit"
    /\ scans' = IF stored
                THEN UpdatePendingScansByURL(scans, jobs[j].url, CompletedUpdates(r), now)
                ELSE scans
    /\ jobs' = [jobs EXCEPT ![j].pc = "return",
                            ![j].outcome = IF stored THEN "ok" ELSE "error",
                            ![j].sub = st, ![j].rl = ScanReturnStatus(st)]
    /\ UNCHANGED <<fnVars, now, rlVars, enq>>

\* scanner.Scan lines 210-225: submit or poll failed with an error of `kind`;
\* the scans are marked failed unless the error is RATE_LIMITED (stored = FALSE:
\* the update returned an error, which is logged and swallowed)
ScanFails(j, kind, st, stored) ==
    /\ RunningJob(j) /\ jobs[j].pc = "submit"
    /\ scans' = IF MarksFailed(kind) /\ stored
                THEN UpdatePendingScansByURL(scans, jobs[j].url, FailedUpdates, now)
                ELSE scans
    /\ jobs' = [jobs EXCEPT ![j].pc = "return", ![j].outcome = kind,
                            ![j].sub = st, ![j].rl = ScanReturnStatus(st)]
    /\ UNCHANGED <<fnVars, now, rlVars, enq>>

\* faulty variant: the snooze duration is not clamped at zero
SnoozeDurationUnclamped(st, t) == st.resetAt - t

\* Work lines 115-120: dur := time.Until(RLStatus.ResetAt), clamped at zero
SnoozeDuration(st, t) == IF st.resetAt - t < 0 THEN 0 ELSE st.resetAt - t

\* the instant a snoozed job is scheduled for (JobSnooze(dur)); no instant is
\* kept for the other outcomes
RunAtAfter(job, t) ==
    IF job.outcome = "ratelimited" THEN t + SnoozeDuration(job.rl, t) ELSE ZeroTime

\* faulty variant: a conflict is returned as a plain error, which the queue retries
JobStateAfterConflictRetries(job) ==
    CASE job.outcome = "ok" -> "completed"
      [] job.outcome = "ratelimited" -> "scheduled"
      [] OTHER -> IF job.attempt >= MaxAttempts THEN "discarded" ELSE "retryable"

\* the state the queue runtime gives a job whose Work returned `outcome`
\* (Work lines 107-128): nil completes, JobCancel cancels, JobSnooze reschedules
\* without counting the attempt, an error retries until MaxAttempts is used up
JobStateAfter(job) ==
    CASE job.outcome = "ok" -> "completed"
      [] job.outcome = "conflict" -> "cancelled"
      [] job.outcome = "ratelimited" -> "scheduled"
      [] OTHER -> IF job.attempt >= MaxAttempts THEN "discarded" ELSE "retryable"

\* a snooze gives the attempt back; the attempts of a finished job are not
\* read again and are not kept
AttemptAfter(job) ==
    CASE job.outcome = "ratelimited" -> job.attempt - 1
      [] JobStateAfter(job) = "retryable" -> job.attempt
      [] OTHER -> 0

\* Work returns and the queue runtime records the outcome
WorkReturn(j) ==
    /\ RunningJob(j) /\ jobs[j].pc = "return"
    /\ jobs' = [jobs EXCEPT ![j].state = JobStateAfter(jobs[j]),
                            ![j].attempt = AttemptAfter(jobs[j]),
                            ![j].pc = "none", ![j].outcome = "none",
                            ![j].rl = ZeroStatus, ![j].sub = ZeroStatus,
                            ![j].runAt = RunAtAfter(jobs[j], now)]
    /\ UNCHANGED <<fnVars, now, rlVars, scans, enq>>

\* the queue's scheduler makes a retryable or snoozed job available again, a
\* snoozed one not before the instant it was snoozed to
JobReschedule(j) ==
    /\ jobs[j] # NoJob /\ jobs[j].tx = Committed
    /\ jobs[j].state \in {"retryable", "scheduled"}
    /\ now >= jobs[j].runAt
    /\ jobs' = [jobs EXCEPT ![j].state = "available", ![j].runAt = ZeroTime]
    /\ UNCHANGED <<fnVars, now, rlVars, scans, enq>>

Next ==
    \/ Tick
    \/ \E c \in Clients, url \in URLs : EnqueueStoreAndAddJob(c, url)
    \/ \E c \in Clients : EnqueueLookup(c)
    \/ \E c \in Clients : EnqueueCommit(c)
    \/ \E c \in Clients : EnqueueError(c)
    \/ \E u \in Users, id \in ScanIDs : Delete(u, id)
    \/ \E j \in JobIDs : WorkReserved(j)
    \/ \E j \in JobIDs : WorkReserveFailed(j)
    \/ \E j \in JobIDs : ScanCount(j)
    \/ \E j \in JobIDs : ScanCountError(j)
    \/ \E j \in JobIDs, r \in Results, st \in SubmitStatuses(now), stored \in BOOLEAN :
            ScanSucceeds(j, r, st, stored)
    \/ \E j \in JobIDs, kind \in {"error", "ratelimited"}, st \in SubmitStatuses(now),
          stored \in BOOLEAN : ScanFails(j, kind, st, stored)
    \/ \E j \in JobIDs : WorkReturn(j)
    \/ \E j \in JobIDs : JobReschedule(j)

Spec == Init /\ [][Next]_vars

\* The scan side over a longer time and with one more scan, restricted to
\* Enqueue calls that succeed and to jobs whose Work reaches the provider:
\* enough for a result to grow older than ResultCacheTTL.
TickCache ==
    /\ now < MaxCacheTime
    /\ now' = now + 1
    /\ UNCHANGED <<fnVars, rlVars, scanVars>>

SpecCache ==
    Init /\ [][\/ TickCache
               \/ \E c \in Clients, url \in URLs : EnqueueStore(c, url, MaxScanSlots)
               \/ \E c \in Clients : EnqueueLookup(c)
               \/ \E c \in Clients : EnqueueCommit(c)
               \/ \E j \in JobIDs : WorkReserved(j)
               \/ \E j \in JobIDs : ScanCount(j)
               \/ \E j \in JobIDs, r \in Results, st \in SubmitStatuses(now) :
                       ScanSucceeds(j, r, st, TRUE)
               \/ \E j \in JobIDs, st \in SubmitStatuses(now) :
                       ScanFails(j, "error", st, TRUE)
               \/ \E j \in JobIDs : WorkReturn(j)
               \/ \E j \in JobIDs : JobReschedule(j)]_vars

SpecRL == Init /\ [][NextRL]_vars

\* The scheduling the rate limiter relies on: a goroutine that holds or can
\* take the mutex runs its pass of the loop, a goroutine that unlocked reaches
\* its select, and a job context ends (worker.go line 56, JobTimeout), after
\* which every select of the job can take the ctx.Done case.
SpecRLFair ==
    /\ SpecRL
    /\ \A w \in Workers : WF_vars(reserveRLGrant(w) \/ reserveRLBlock(w))
    /\ \A w \in Workers : WF_vars(reserveRLSelect(w))
    /\ \A w \in Workers : SF_vars(reserveRLCancelled(w))

----------------------------------------------------------------------------
(* PgSQL.WithTx (pkg/storage/postgres/postgres.go), followed step by step  *)
(* for one call.  The inputs of the call are the errors that Begin, the    *)
(* callback, Rollback and Commit return (NoErr is nil) and the rows the    *)
(* callback writes through the transactional handle.                       *)

NoErr == "nil"

TxRows == {"scan", "job"}

\* faulty variant: the error of Rollback is returned when there is one
RollbackBranchReturnsRollbackErr(cbErr, rbErr) ==
    IF rbErr # NoErr THEN rbErr ELSE cbErr

\* lines 144-148: `_ = tx.Rollback()` discards the rollback error and the
\* callback's error is returned
RollbackBranchReturn(cbErr, rbErr) == cbErr

\* lines 150-152: a commit error is returned wrapped
CommitBranchReturn(cmErr) ==
    IF cmErr # NoErr THEN <<"could not commit tx", cmErr>> ELSE NoErr

\* lines 139-142: Begin; its error ends the call before the callback runs
WithTxBegin ==
    /\ wtx.pc = "begin"
    /\ wtx' = IF wtx.beginErr # NoErr
                THEN [wtx EXCEPT !.pc = "done", !.ret = wtx.beginErr]
                ELSE [wtx EXCEPT !.pc = "callback"]
    /\ UNCHANGED <<now, rlVars, scanVars, api, norm, page, upd, poll, sub, walk>>

\* line 144: cb(tx); its writes stay inside the transaction
WithTxCallback ==
    /\ wtx.pc = "callback"
    /\ wtx' = [wtx EXCEPT !.inTx = wtx.writes,
                          !.pc = IF wtx.cbErr # NoErr THEN "rollback"
                                                      ELSE "commit"]
    /\ UNCHANGED <<now, rlVars, scanVars, api, norm, page, upd, poll, sub, walk>>

\* lines 145-147: the transaction is aborted (a failed Rollback leaves it
\* to the server to abort) and the callback's error is returned
WithTxRollback ==
    /\ wtx.pc = "rollback"
    /\ wtx' = [wtx EXCEPT !.inTx = {}, !.pc = "done",
                          !.ret = RollbackBranchReturn(wtx.cbErr, wtx.rbErr)]
    /\ UNCHANGED <<now, rlVars, scanVars, api, norm, page, upd, poll, sub, walk>>

\* lines 150-154: Commit publishes every write of the transaction at once,
\* or none of them when it fails
WithTxCommit ==
    /\ wtx.pc = "commit"
    /\ wtx' = [wtx EXCEPT !.inTx = {}, !.pc = "done",
                          !.visible = IF wtx.cmErr = NoErr THEN wtx.inTx
                                                           ELSE {},
                          !.ret = CommitBranchReturn(wtx.cmErr)]
    /\ UNCHANGED <<now, rlVars, scanVars, api, norm, page, upd, poll, sub, walk>>

\* the calls of WithTx that are followed
SpecTx ==
    /\ InitBut("wtx", [pc : {"begin"},
                       beginErr : {NoErr, "could not begin tx"},
                       cbErr : {NoErr, "callback error"},
                       rbErr : {NoErr, "could not rollback tx"},
                       cmErr : {NoErr, "commit error"},
                       writes : SUBSET TxRows,
                       inTx : {{}}, visible : {{}}, ret : {"not returned"}])
    /\ [][WithTxBegin \/ WithTxCallback \/ WithTxRollback \/ WithTxCommit]_vars

----------------------------------------------------------------------------
(* Handler.NewError (internal/api/handler/v1handler/handler.go) over the   *)
(* errors of pkg/serrors.  An error value is one of                        *)
(*   plain     an error that carries no kind (errors.New, a driver error), *)
(*   security  ogen's ErrSecurityRequirementIsNotSatisfied,                *)
(*   sentinel  a bare kind such as serrors.ErrNotFound,                    *)
(*   semantic  a *serrors.Error with a kind (possibly nil), a message      *)
(*             (possibly empty) and a cause (possibly nil),                *)
(* and a sentinel or semantic error may sit inside fmt.Errorf("...: %w").  *)

NoKind == "nil kind"
NoCause == "nil cause"
NoSem == [form |-> "nil"]
CauseText == "pq: connection refused"
SemMessage == "semantic message"

\* serrors.go lines 30-49
Kinds == {"NOT_FOUND", "UNAUTHORIZED", "FORBIDDEN", "BAD_REQUEST", "CONFLICT",
          "INTERNAL", "TIMEOUT", "UNAVAILABLE", "RATE_LIMITED"}

PlainError ==
    [form |-> "plain", kind |-> NoKind, msg |-> "", cause |-> CauseText,
     wrapped |-> FALSE]

SecurityError ==
    [form |-> "security", kind |-> NoKind, msg |-> "", cause |-> NoCause,
     wrapped |-> FALSE]

SentinelErrors ==
    [form : {"sentinel"}, kind : Kinds, msg : {""}, cause : {NoCause},
     wrapped : BOOLEAN]

\* serrors.With, serrors.Wrap, serrors.KindOnly and the struct they fill
SemanticErrors ==
    [form : {"semantic"}, kind : Kinds \cup {NoKind}, msg : {"", SemMessage},
     cause : {NoCause, CauseText}, wrapped : BOOLEAN]

Errors == {PlainError, SecurityError} \cup SentinelErrors \cup SemanticErrors

\* line 47, errors.As(err, &sem): the *serrors.Error of the chain, if any
SemOf(err) == IF err.form = "semantic" THEN err ELSE NoSem

\* sem != nil
HasSem(sem) == sem.form = "semantic"

\* lines 47-52: the kind of the semantic error when it has one, otherwise
\* errors.As(err, &kind), which finds a sentinel in the chain; the cause of
\* a semantic error here is nil or a plain error, which carries no kind
ExtractedKind(err) ==
    LET sem == SemOf(err)
    IN  IF HasSem(sem) /\ sem.kind # NoKind THEN sem.kind
        ELSE IF err.form = "sentinel" THEN err.kind
        ELSE NoKind

\* lines 54-56: an unsatisfied security requirement is UNAUTHORIZED
KindOf(err) ==
    IF err.form = "security" THEN "UNAUTHORIZED" ELSE ExtractedKind(err)

\* faulty variant: CONFLICT gets a status of its own
KindStatusWithConflict(kind) ==
    CASE kind = "NOT_FOUND"    -> 404
      [] kind = "UNAUTHORIZED" -> 401
      [] kind = "BAD_REQUEST"  -> 400
      [] kind = "CONFLICT"     -> 409
      [] OTHER                 -> 500

\* lines 58 and 63-80: status
KindStatus(kind) ==
    CASE kind = "NOT_FOUND"    -> 404
      [] kind = "UNAUTHORIZED" -> 401
      [] kind = "BAD_REQUEST"  -> 400
      [] OTHER                 -> 500

\* lines 59 and 63-80: code
KindCode(kind) ==
    IF kind \in {"NOT_FOUND", "UNAUTHORIZED", "BAD_REQUEST"} THEN kind
    ELSE "INTERNAL"

\* lines 60 and 63-80: msg
KindMessage(kind) ==
    CASE kind = "NOT_FOUND"    -> "resource not found"
      [] kind = "UNAUTHORIZED" -> "unauthorized"
      [] kind = "BAD_REQUEST"  -> "bad request"
      [] OTHER                 -> "internal error"

\* lines 43-101; logged is the logger.Error call of line 84
NewError(err) ==
    LET sem  == SemOf(err)
        kind == KindOf(err)
    IN  IF kind = NoKind \/ kind = "INTERNAL"
          THEN [status |-> 500, code |-> KindCode(kind),
                message |-> KindMessage(kind), logged |-> TRUE]
          ELSE [status |-> KindStatus(kind), code |-> KindCode(kind),
                message |-> IF HasSem(sem) /\ sem.msg # ""
                              THEN sem.msg ELSE KindMessage(kind),
                logged |-> FALSE]

NewErrorCall ==
    /\ api.pc = "call"
    /\ api' = [api EXCEPT !.pc = "done", !.resp = NewError(api.err)]
    /\ UNCHANGED <<now, rlVars, scanVars, wtx, norm, page, upd, poll, sub, walk>>

\* the calls of NewError that are followed
SpecAPI ==
    /\ InitBut("api", [pc : {"call"}, err : Errors, resp : {[status |-> 0]}])
    /\ [][NewErrorCall]_vars

----------------------------------------------------------------------------
(* NormalizeURL (internal/scanner/normalize.go) over URL strings of the    *)
(* form  scheme://host[/path][?query][#fragment].  A string is kept by its *)
(* parts, as url.Parse splits it and URL.String joins it:                  *)
(*   host   the authority text as a sequence of tokens: "[", "]", ":",     *)
(*          letters and digit groups,                                      *)
(*   path   the segments that follow each "/" (<<>> is the empty path,     *)
(*          <<"">> is "/", <<"a", "">> is "/a/"),                          *)
(*   query  the key=value pairs in the order written.                      *)
(* User info, opaque URLs, relative references and percent-escapes are     *)
(* outside the strings considered.                                         *)

MaxPathLen == 2
MaxQueryLen == 2

DigitTokens == {"1", "80", "443", "8080"}

\* strings.ToLower on a token
ToLower(t) ==
    CASE t = "H" -> "h"
      [] t = "A" -> "a"
      [] t = "HTTP" -> "http"
      [] t = "HTTPS" -> "https"
      [] OTHER -> t

ToLowerSeq(s) == [i \in 1..Len(s) |-> ToLower(s[i])]

Contains(s, t) == \E i \in 1..Len(s) : s[i] = t

\* strings.LastIndex / strings.Index on tokens, 0 when absent
LastIndex(s, t) ==
    IF Contains(s, t) THEN CHOOSE i \in 1..Len(s) :
                              s[i] = t /\ \A j \in (i+1)..Len(s) : s[j] # t
    ELSE 0

IndexOf(s, t) ==
    IF Contains(s, t) THEN CHOOSE i \in 1..Len(s) :
                              s[i] = t /\ \A j \in 1..(i-1) : s[j] # t
    ELSE 0

\* net/url validOptionalPort: "" or ":" followed by digits only
validOptionalPort(colonPort) ==
    \/ Len(colonPort) = 0
    \/ /\ colonPort[1] = ":"
       /\ \A i \in 2..Len(colonPort) : colonPort[i] \in DigitTokens

\* net/url parseHost: whether the authority text is accepted
parseHostOK(host) ==
    IF Len(host) > 0 /\ host[1] = "["
      THEN /\ Contains(host, "]")
           /\ validOptionalPort(SubSeq(host, LastIndex(host, "]") + 1, Len(host)))
      ELSE IF Contains(host, ":")
        THEN validOptionalPort(SubSeq(host, LastIndex(host, ":"), Len(host)))
        ELSE TRUE

\* net.SplitHostPort: [ok, host, port]
SplitHostPort(hostport) ==
    LET i    == LastIndex(hostport, ":")
        fail == [ok |-> FALSE, host |-> <<>>, port |-> <<>>]
    IN  IF i = 0 THEN fail
        ELSE IF hostport[1] = "["
          THEN LET end == IndexOf(hostport, "]")
               IN  IF end = 0 \/ end + 1 # i THEN fail
                   ELSE IF Contains(SubSeq(hostport, 2, Len(hostport)), "[")
                           \/ Contains(SubSeq(hostport, end + 1, Len(hostport)), "]")
                     THEN fail
                     ELSE [ok |-> TRUE, host |-> SubSeq(hostport, 2, end - 1),
                           port |-> SubSeq(hostport, i + 1, Len(hostport))]
          ELSE IF Contains(SubSeq(hostport, 1, i - 1), ":")
                  \/ Contains(hostport, "[") \/ Contains(hostport, "]")
            THEN fail
            ELSE [ok |-> TRUE, host |-> SubSeq(hostport, 1, i - 1),
                  port |-> SubSeq(hostport, i + 1, Len(hostport))]

\* net.JoinHostPort: brackets around a host that contains a colon
JoinHostPort(host, port) ==
    IF Contains(host, ":") THEN <<"[">> \o host \o <<"]", ":">> \o port
    ELSE host \o <<":">> \o port

\* path.Clean on a rooted path: empty and "." segments dropped, ".."
\* removes the segment before it, the root is "/"
RECURSIVE CleanSegments(_, _)
CleanSegments(segs, out) ==
    IF Len(segs) = 0 THEN out
    ELSE LET h == Head(segs)
         IN  CleanSegments(Tail(segs),
                 IF h \in {"", "."} THEN out
                 ELSE IF h = ".." THEN (IF Len(out) = 0 THEN out
                                        ELSE SubSeq(out, 1, Len(out) - 1))
                 ELSE Append(out, h))

Clean(p) ==
    LET out == CleanSegments(p, <<>>)
    IN  IF Len(out) = 0 THEN <<"">> ELSE out

\* strings.TrimRight(p, "/")
RECURSIVE TrimRightSlash(_)
TrimRightSlash(p) ==
    IF Len(p) > 0 /\ p[Len(p)] = "" THEN TrimRightSlash(SubSeq(p, 1, Len(p) - 1))
    ELSE p

\* lines 35-51
NormalizePath(p) ==
    LET p1 == IF Len(p) = 0 THEN <<"">> ELSE p
        p2 == Clean(p1)
    IN  IF p2 # <<"">> /\ p2[Len(p2)] = "" THEN TrimRightSlash(p2) ELSE p2

\* lines 54-68
NormalizeHost(scheme, uhost) ==
    LET host == ToLowerSeq(uhost)
        sp   == SplitHostPort(host)
    IN  IF sp.ok /\ Len(sp.port) > 0
          THEN IF \/ scheme = "http" /\ sp.port = <<"80">>
                  \/ scheme = "https" /\ sp.port = <<"443">>
                 THEN sp.host
                 ELSE JoinHostPort(sp.host, sp.port)
          ELSE IF sp.ok THEN sp.host ELSE host

\* the order of sort.Strings and of Values.Encode on the keys and values used
Rank(x) == CASE x = "1" -> 1 [] x = "2" -> 2 [] x = "a" -> 3 [] x = "b" -> 4

PairBefore(p, q) ==
    \/ Rank(p[1]) < Rank(q[1])
    \/ Rank(p[1]) = Rank(q[1]) /\ Rank(p[2]) <= Rank(q[2])

RECURSIVE InsertPair(_, _)
InsertPair(p, sorted) ==
    IF Len(sorted) = 0 THEN <<p>>
    ELSE IF PairBefore(p, Head(sorted)) THEN <<p>> \o sorted
    ELSE <<Head(sorted)>> \o InsertPair(p, Tail(sorted))

\* lines 71-79: values of each key sorted, keys sorted by Encode
RECURSIVE NormalizeQuery(_)
NormalizeQuery(q) ==
    IF Len(q) = 0 THEN <<>>
    ELSE InsertPair(Head(q), NormalizeQuery(Tail(q)))

ParseFailed == [ok |-> FALSE]

\* lines 25-85: url.Parse, the rewriting of the parts, URL.String
NormalizeURL(raw) ==
    IF ~parseHostOK(raw.host) THEN ParseFailed
    ELSE LET scheme == ToLower(raw.scheme)
         IN  [ok |-> TRUE,
              url |-> [scheme   |-> scheme,
                       host     |-> NormalizeHost(scheme, raw.host),
                       path     |-> NormalizePath(raw.path),
                       query    |-> NormalizeQuery(raw.query),
                       fragment |-> ""]]

SeqsUpTo(S, n) == UNION {[1..k -> S] : k \in 0..n}

\* the strings NormalizeURL is given: a host name followed by a port suffix
RawURLs ==
    [scheme   : {"HTTP", "https"},
     host     : {n \o p :
                    n \in {<<"h">>, <<"H">>,
                           <<"[", ":", ":", "a", "]">>, <<"[", ":", ":", "A", "]">>,
                           <<"[", ":", ":", "1", "]">>,
                           <<":", ":", "a">>, <<":", ":", "1">>},
                    p \in {<<>>, <<":">>, <<":", "80">>, <<":", "443">>,
                           <<":", "8080">>}},
     path     : SeqsUpTo({"a", ".", "..", ""}, MaxPathLen),
     query    : SeqsUpTo({"a", "b"} \X {"1", "2"}, MaxQueryLen),
     fragment : {"", "frag"}]

\* scanner.Enqueue: the string of the request is normalized
NormalizeOnce ==
    /\ norm.pc = "call"
    /\ norm' = [norm EXCEPT !.pc = "once", !.out = NormalizeURL(norm.raw)]
    /\ UNCHANGED <<now, rlVars, scanVars, wtx, api, page, upd, poll, sub, walk>>

\* the stored url is normalized again
NormalizeAgain ==
    /\ norm.pc = "once"
    /\ norm.out.ok
    /\ norm' = [norm EXCEPT !.pc = "twice", !.again = NormalizeURL(norm.out.url)]
    /\ UNCHANGED <<now, rlVars, scanVars, wtx, api, page, upd, poll, sub, walk>>

SpecNorm ==
    /\ InitBut("norm", [pc : {"call"}, raw : RawURLs,
                        out : {ParseFailed}, again : {ParseFailed}])
    /\ [][NormalizeOnce \/ NormalizeAgain]_vars

----------------------------------------------------------------------------
(* PgSQL.UserScans (pkg/storage/postgres/scan.go) on a table of scans.     *)
(* Ids are UUIDs: their order is unrelated to created_at, and two rows may *)
(* share a created_at.                                                     *)

MaxRows == 3
MaxCreatedAt == 2
MaxLimit == 3

RowIDs == 1..MaxRows

\* lines 106-112: the WHERE clause
UserScansWhere(T, user, cursor) ==
    {id \in RowIDs :
        /\ T[id].user = user
        /\ ~T[id].deleted
        /\ (cursor # ZeroTime => T[id].createdAt < cursor)}

\* line 118: created_at DESC, id DESC
OrderedBefore(T, a, b) ==
    \/ T[a].createdAt > T[b].createdAt
    \/ T[a].createdAt = T[b].createdAt /\ a > b

RECURSIVE OrderDesc(_, _)
OrderDesc(T, ids) ==
    IF ids = {} THEN <<>>
    ELSE LET first == CHOOSE a \in ids : \A b \in ids \ {a} : OrderedBefore(T, a, b)
         IN  <<first>> \o OrderDesc(T, ids \ {first})

\* faulty variant: no extra row is fetched
FetchCountNoExtra(limit) == limit

\* line 115: fetch := limit + 1
FetchCount(limit) == limit + 1

FirstN(seq, n) == SubSeq(seq, 1, IF n < Len(seq) THEN n ELSE Len(seq))

\* the call panicked: index out of range at line 130
Panicked == [panicked |-> TRUE]

\* lines 102-143; a row of the result is the id of the scan
UserScans(T, user, cursor, limit) ==
    LET rows == FirstN(OrderDesc(T, UserScansWhere(T, user, cursor)), FetchCount(limit))
    IN  IF Len(rows) > limit
          THEN LET trimmed == SubSeq(rows, 1, limit)
               IN  IF Len(trimmed) = 0 THEN Panicked
                   ELSE [panicked |-> FALSE, scans |-> trimmed, hasNext |-> TRUE,
                         nextCursor |-> T[trimmed[Len(trimmed)]].createdAt]
          ELSE [panicked |-> FALSE, scans |-> rows, hasNext |-> FALSE,
                nextCursor |-> ZeroTime]

UserScansCall ==
    /\ page.pc = "call"
    /\ page' = [page EXCEPT !.pc = "done",
                   !.result = UserScans(page.table, page.user, page.cursor, page.limit)]
    /\ UNCHANGED <<now, rlVars, scanVars, wtx, api, norm, upd, poll, sub, walk>>

\* one call on any table, with any cursor and any limit
SpecPage ==
    /\ InitBut("page", [pc : {"call"},
                        table : [RowIDs -> [user : Users, createdAt : 1..MaxCreatedAt,
                                            deleted : BOOLEAN]],
                        user : {"u1"},
                        cursor : {ZeroTime} \cup 1..(MaxCreatedAt + 1),
                        limit : 0..MaxLimit,
                        result : {Panicked}])
    /\ [][UserScansCall]_vars

----------------------------------------------------------------------------
(* One call of PgSQL.UpdatePendingScansByURL (pkg/storage/postgres/scan.go, *)
(* lines 42-76) on a table of committed rows of two URLs, in every status,  *)
(* deleted or not.                                                          *)

\* a committed row of the scans table
UpdRows ==
    {NoScan} \cup
    {[NewScanRow("u1", url, Committed, 1, TRUE) EXCEPT
          !.status = st, !.deleted = d, !.attempts = a,
          !.result = IF st = ScanStatusCompleted THEN "R1" ELSE NoResult,
          !.lastError = IF st = ScanStatusFailed THEN "old" ELSE ""] :
        url \in {"a", "b"},
        st \in {ScanStatusPending, ScanStatusCompleted, ScanStatusFailed},
        d \in BOOLEAN, a \in 0..1}

UpdateCall ==
    /\ upd.pc = "call"
    /\ upd' = [pc |-> "done", table |-> upd.table, url |-> upd.url,
               updates |-> upd.updates, t |-> upd.t,
               out |-> UpdatePendingScansByURL(upd.table, upd.url, upd.updates, upd.t)]
    /\ UNCHANGED <<now, rlVars, scanVars, wtx, api, norm, page, poll, sub, walk>>

\* the call is one scanner.Scan makes (lines 214-218 and 227-230), at time 1,
\* on any table of such rows
SpecUpd ==
    /\ InitBut("upd", [pc : {"call"}, table : [ScanIDs -> UpdRows], url : {"a", "b"},
                       updates : {CompletedUpdates("R2"), FailedUpdates}, t : {1}])
    /\ [][UpdateCall]_vars

----------------------------------------------------------------------------
(* One call of scanner.submitURLAndPoll (internal/scanner/scanner.go,      *)
(* lines 251-288), followed step by step with a clock in seconds.  The     *)
(* provider decides what the submit and every poll answer and how long a   *)
(* poll takes; the ambient (job) context may be cancelled at any moment.   *)

\* scanner.go lines 19-22, in seconds
scanResultPollTimeout == 30
scanResultPollInitialDelay == 1
scanResultPollIntervalBase == 2
scanResultPollIntervalMax == 600

\* line 283: delay = min(delay*2, scanResultPollIntervalMax)
NextDelay(delay) ==
    IF delay * 2 < scanResultPollIntervalMax THEN delay * 2
                                             ELSE scanResultPollIntervalMax

\* the interval of the select after the k-th failed poll (k >= 1): line 267
\* for the first, line 283 applied after every earlier wait
RECURSIVE DelayAfter(_)
DelayAfter(k) ==
    IF k <= 1 THEN scanResultPollIntervalBase ELSE NextDelay(DelayAfter(k - 1))

\* the context of line 264 is done: its deadline passed (e seconds after it
\* was created) or its parent, the ambient context, was cancelled
PollCtxDone(p) == p.amb \/ p.e >= scanResultPollTimeout

\* faulty variant: the request of a poll is not bound to the context
PollEndUnbound(e, d) == e + d

\* Result, urlscan client lines 333 and 339: the request carries the context,
\* so a poll that started at e and would take d ends at the deadline at the latest
PollEnd(e, d) == IF e + d < scanResultPollTimeout THEN e + d ELSE scanResultPollTimeout

\* the ambient context is cancelled (job timeout, shutdown) while the call runs
AmbientCancel ==
    /\ poll.pc \in {"submit", "sleep", "poll", "select"}
    /\ ~poll.amb
    /\ poll' = [poll EXCEPT !.amb = TRUE]
    /\ UNCHANGED <<now, rlVars, scanVars, wtx, api, norm, page, upd, sub, walk>>

\* lines 256-259: SubmitURL; an error returns with the status it carried (the
\* zero status or one parsed from a response).  A request on a cancelled
\* context fails before any response (zero status)
PollSubmit ==
    /\ poll.pc = "submit"
    /\ \E ok \in BOOLEAN, st \in {ZeroStatus, RateLimitStatus(ProvLimit, 1, 2)} :
          /\ poll.amb => (~ok /\ st = ZeroStatus)
          /\ poll' = IF ok
                     THEN [poll EXCEPT !.pc = "sleep", !.submits = @ + 1, !.subRL = st]
                     ELSE [poll EXCEPT !.pc = "done", !.submits = @ + 1, !.subRL = st,
                                       !.ret = "submit error", !.rl = st]
    /\ UNCHANGED <<now, rlVars, scanVars, wtx, api, norm, page, upd, sub, walk>>

\* lines 262-267: time.Sleep (which no context interrupts), then the context
\* with the poll timeout is created and the interval starts at the base
PollSleepEnds ==
    /\ poll.pc = "sleep"
    /\ poll' = [poll EXCEPT !.pc = "poll", !.e = 0,
                            !.delay = scanResultPollIntervalBase]
    /\ UNCHANGED <<now, rlVars, scanVars, wtx, api, norm, page, upd, sub, walk>>

\* lines 270-276: one call of Result, which the provider answers at once,
\* shortly, or so late that the deadline overtakes the request.  With the
\* context already done the request fails at once; a request the deadline
\* overtakes fails at the deadline; a request that ends exactly at the
\* deadline may go either way
PollResult ==
    /\ poll.pc = "poll"
    /\ \E d \in {0, 1, MaxPollDuration}, ok \in BOOLEAN :
          LET late == PollCtxDone(poll)
              end == IF late THEN poll.e ELSE PollEnd(poll.e, d)
              cut == late \/ poll.e + d > scanResultPollTimeout
          IN  /\ cut => ~ok
              /\ poll' = IF ok
                         THEN [poll EXCEPT !.pc = "done", !.polls = @ + 1, !.e = end,
                                           !.ret = "result", !.rl = poll.subRL]
                         ELSE [poll EXCEPT !.pc = "select", !.polls = @ + 1, !.e = end,
                                           !.k = @ + 1,
                                           !.latePolls = IF late THEN @ + 1 ELSE @]
    /\ UNCHANGED <<now, rlVars, scanVars, wtx, api, norm, page, upd, sub, walk>>

\* lines 280-286: the select between time.After(delay) and ctx.Done().  The
\* case that becomes ready first is taken; when both are ready at the same
\* instant either may be taken
PollSelect ==
    /\ poll.pc = "select"
    /\ LET logged == [poll EXCEPT !.waits = Append(@, poll.delay)]
           timer == [logged EXCEPT !.pc = "poll", !.e = poll.e + poll.delay,
                                   !.delay = NextDelay(poll.delay)]
           timeout(at) == [logged EXCEPT !.pc = "done", !.e = at,
                                         !.ret = "timeout", !.rl = poll.subRL]
       IN  IF PollCtxDone(poll)
           THEN poll' = timeout(poll.e)
           ELSE \/ /\ poll.e + poll.delay <= scanResultPollTimeout
                   /\ poll' = timer
                \/ /\ poll.e + poll.delay >= scanResultPollTimeout
                   /\ poll' = timeout(scanResultPollTimeout)
    /\ UNCHANGED <<now, rlVars, scanVars, wtx, api, norm, page, upd, sub, walk>>

\* the call starts at its first line, with the ambient context cancelled
\* already or not
SpecPoll ==
    /\ InitBut("poll", [pc : {"submit"}, amb : BOOLEAN, e : {0}, delay : {0}, k : {0},
                        submits : {0}, polls : {0}, latePolls : {0}, waits : {<<>>},
                        subRL : {ZeroStatus}, ret : {"none"}, rl : {ZeroStatus}])
    /\ [][AmbientCancel \/ PollSubmit \/ PollSleepEnds \/ PollResult \/ PollSelect]_vars

\* the call's own steps are taken: the goroutine runs, its sleep and its
\* timers end, and a request bound to a context with a deadline returns
SpecPollFair ==
    /\ SpecPoll
    /\ WF_vars(PollSubmit) /\ WF_vars(PollSleepEnds)
    /\ WF_vars(PollResult) /\ WF_vars(PollSelect)

----------------------------------------------------------------------------
(* One call of the urlscan client's SubmitURL (lines 271-326) and of       *)
(* ParseRateLimit (lines 245-266) on the response the provider sends.      *)

\* strconv.Atoi on a header value, with the fallback of lines 246-255
atoi(s) ==
    CASE s = "0" -> 0
      [] s = "2" -> 2
      [] OTHER -> 0

\* ParseRateLimit, lines 245-266; time.Parse(time.RFC3339Nano, s), line 260,
\* parses only an RFC 3339 text
ParseRateLimit(h) ==
    LET reset == IF h.reset = "1970-01-01T00:00:02Z" THEN [ok |-> TRUE, t |-> 2]
                                                      ELSE [ok |-> FALSE] IN
    IF ~reset.ok
    THEN [ok |-> FALSE, rl |-> ZeroStatus]
    ELSE [ok |-> TRUE, rl |-> RateLimitStatus(atoi(h.limit), atoi(h.remaining), reset.t)]

\* the responses of the provider (or of anything between it and the client):
\* sent is FALSE when httpClient.Do fails, bodyOK is FALSE when the body
\* cannot be read.  The X-Rate-Limit-Limit and X-Rate-Limit-Remaining headers
\* are absent, decimal numbers or something else; the X-Rate-Limit-Reset
\* header is absent, an RFC 3339 instant, Unix seconds or something else
SubmitResponses ==
    [sent : BOOLEAN, code : {200, 429, 500},
     h : [limit : {"", "0", "2", "many"}, remaining : {"", "0", "2", "many"},
          reset : {"", "1970-01-01T00:00:02Z", "2", "soon"}],
     bodyOK : BOOLEAN]

\* SubmitURL, lines 298-325: the kind of the error returned ("ok" for nil,
\* "ratelimited" for serrors.ErrRateLimited, "error" for a plain error) and
\* the RateLimitStatus returned with it
SubmitURL(resp) ==
    LET parsed == ParseRateLimit(resp.h) IN
    CASE ~resp.sent -> [kind |-> "error", rl |-> ZeroStatus]
      [] ~parsed.ok -> [kind |-> "error", rl |-> parsed.rl]
      [] ~resp.bodyOK -> [kind |-> "error", rl |-> parsed.rl]
      [] resp.code = 429 -> [kind |-> "ratelimited", rl |-> parsed.rl]
      [] resp.code < 200 \/ resp.code >= 300 -> [kind |-> "error", rl |-> parsed.rl]
      [] OTHER -> [kind |-> "ok", rl |-> parsed.rl]

SubmitCall ==
    /\ sub.pc = "call"
    /\ sub' = [pc |-> "done", resp |-> sub.resp, out |-> SubmitURL(sub.resp)]
    /\ UNCHANGED <<now, rlVars, scanVars, wtx, api, norm, page, upd, poll, walk>>

SpecSub ==
    /\ InitBut("sub", [pc : {"call"}, resp : SubmitResponses])
    /\ [][SubmitCall]_vars

----------------------------------------------------------------------------
(* scanner.Enqueue, lines 62-65: the URL of the request does not           *)
(* normalize.  SpecEnq follows the calls the API clients make (Enqueue     *)
(* with every way out, Delete) on the storage, with no job running.        *)

\* what the API may be asked to enqueue: two strings url.Parse rejects (a
\* port that is not a number) and one it accepts
EnqueueRawURLs ==
    {[scheme |-> "HTTP", host |-> h, path |-> <<>>, query |-> <<>>, fragment |-> ""] :
        h \in {<<":", ":", "a">>, <<"h", ":", "a">>, <<"h">>}}

\* line 64: serrors.Wrap(serrors.ErrBadRequest, err, "invalid URL")
ErrInvalidURL ==
    [form |-> "semantic", kind |-> "BAD_REQUEST", msg |-> "invalid URL",
     cause |-> "parse error", wrapped |-> TRUE]

\* faulty variant: the row is stored before the URL is looked at
EnqueueInvalidStoresRow(c, raw) ==
    /\ enq[c].pc = "idle"
    /\ ~NormalizeURL(raw).ok
    /\ FreeScanIDs(scans) # {}
    /\ scans' = [scans EXCEPT ![MinOf(FreeScanIDs(scans))] =
                    NewScanRow(UserOf(c), "a", Committed, 1, FALSE)]
    /\ enq' = [enq EXCEPT ![c] = [pc |-> "idle", raw |-> raw, err |-> ErrInvalidURL]]
    /\ UNCHANGED <<fnVars, now, rlVars, jobs>>

\* lines 62-65: NormalizeURL fails and Enqueue returns, before WithTx (line 67)
EnqueueInvalid(c, raw) ==
    /\ enq[c].pc = "idle"
    /\ ~NormalizeURL(raw).ok
    /\ enq' = [enq EXCEPT ![c] = [pc |-> "idle", raw |-> raw, err |-> ErrInvalidURL]]
    /\ UNCHANGED <<fnVars, now, rlVars, scans, jobs>>

SpecEnq ==
    Init /\ [][\/ Tick
               \/ \E c \in Clients, raw \in EnqueueRawURLs : EnqueueInvalid(c, raw)
               \/ \E c \in Clients, url \in URLs : EnqueueStoreAndAddJob(c, url)
               \/ \E c \in Clients : EnqueueLookup(c)
               \/ \E c \in Clients : EnqueueCommit(c)
               \/ \E c \in Clients : EnqueueError(c)
               \/ \E u \in Users, id \in ScanIDs : Delete(u, id)]_vars

----------------------------------------------------------------------------
(* A client that reads all its scans through scanner.UserScans             *)
(* (internal/scanner/scanner.go, lines 121-146): it starts with the empty  *)
(* cursor and passes every next-cursor it is given back, over a table      *)
(* that does not change.  created_at has a finer resolution than the       *)
(* second; here an instant is a number of ticks.                           *)

TicksPerSecond == 2

\* line 142: NextCursor.Format(time.RFC3339), a text with whole seconds; the
\* text is represented by the number of seconds it shows
FormatRFC3339(t) == t \div TicksPerSecond

\* line 131: time.Parse(time.RFC3339, cursor)
ParseRFC3339(s) == s * TicksPerSecond

\* the empty cursor string
NoCursor == -1

\* one call of scanner.UserScans with the cursor the client holds; lines
\* 129-136 compute the cursor time the storage is called with
WalkNextPage ==
    /\ walk.pc = "next"
    /\ LET cursorTime == IF walk.cursor = NoCursor THEN ZeroTime
                                                   ELSE ParseRFC3339(walk.cursor)
           res == UserScans(walk.table, walk.user, cursorTime, walk.limit)
       IN  walk' = [walk EXCEPT
                      !.seen = @ \o res.scans,
                      !.cursor = IF res.hasNext THEN FormatRFC3339(res.nextCursor)
                                                ELSE NoCursor,
                      !.pc = IF res.hasNext THEN "next" ELSE "end"]
    /\ UNCHANGED <<now, rlVars, scanVars, wtx, api, norm, page, upd, poll, sub>>

\* the client starts with the empty cursor; the instants of created_at are
\* the ticks of the seconds 1 and 2
SpecWalk ==
    /\ InitBut("walk", [pc : {"next"},
                        table : [RowIDs ->
                                   [user : Users, deleted : BOOLEAN,
                                    createdAt : TicksPerSecond..
                                                (TicksPerSecond + MaxWalkTicks)]],
                        user : {"u1"}, limit : 1..MaxLimit,
                        cursor : {NoCursor}, seen : {<<>>}])
    /\ [][WalkNextPage]_vars

----------------------------------------------------------------------------
(* The rate limiter fed with every status ParseRateLimit can produce from  *)
(* the headers of a submit response, instead of the statuses of a          *)
(* provider that always reports its limit.                                 *)

\* Scan submits the URL (submitURLAndPoll, line 256) and returns the status
\* SubmitURL parsed from the response, whether the submit failed or not
\* (lines 258 and 275, scanner.Scan lines 224 and 234); the response was
\* received and read
ScanSubmitParsed(w) ==
    /\ wpc[w] = "scan"
    /\ \E r \in {x \in SubmitResponses : x.sent /\ x.bodyOK} :
          /\ wStatus' = [wStatus EXCEPT ![w] = SubmitURL(r).rl]
          /\ wResp' = [wResp EXCEPT ![w] = IF r.code = 429 THEN "429" ELSE "accepted"]
    /\ wpc' = [wpc EXCEPT ![w] = "finish"]
    /\ UNCHANGED <<fnVars, wRet, wLog, now, lastRLStatus, inFlightRequests, wResetAt,
                   wGrantReal, provWindow, provRemaining, learned, scanVars>>

SpecGate ==
    Init /\ [][\/ Tick
               \/ \E w \in Workers : WorkStart(w)
               \/ \E w \in Workers : reserveRLGrant(w)
               \/ \E w \in Workers : reserveRLBlock(w)
               \/ \E w \in Workers : reserveRLSelect(w)
               \/ \E w \in Workers : reserveRLTimer(w)
               \/ \E w \in Workers : reserveRLCancelled(w)
               \/ \E w \in Workers : ScanNoSubmit(w)
               \/ \E w \in Workers : ScanSubmitParsed(w)
               \/ \E w \in Workers : requestFinished(w)]_vars

----------------------------------------------------------------------------
(* C1: once a real rate-limit status has been learned, no reservation      *)
(* granted by reserveRL leads to a submit that the provider's true         *)
(* remaining budget of the current window cannot cover (the provider       *)
(* never has to answer 429 to a submit made under such a reservation).     *)
C1_NeverSubmitsOverBudget ==
    \A w \in Workers :
        (wpc[w] = "finish" /\ wGrantReal[w]) => wResp[w] # "429"

(* C2: every reservation is granted in a state where                       *)
(* effectiveRemaining - inFlight > 0, so right after the grant inFlight is *)
(* at most effectiveRemaining(now).                                        *)
C2_GrantWithinBudget ==
    [][\A w \in Workers :
        (wpc[w] = "reserve" /\ wpc'[w] = "scan") =>
            /\ EffectiveRemaining(lastRLStatus', now) - inFlightRequests > 0
            /\ inFlightRequests' = inFlightRequests + 1
            /\ inFlightRequests' <= EffectiveRemaining(lastRLStatus', now')]_vars

\* two scans run concurrently under a learned status, the last one just granted
C2_Witness ==
    /\ learned
    /\ inFlightRequests = 2
    /\ Cardinality({w \in Workers : wpc[w] = "scan"}) = 2

(* C3: a scan that Enqueue committed as PENDING because its job was a      *)
(* duplicate and no completed scan existed is COMPLETED, with the result   *)
(* the job stored, once that sibling job has finished successfully.        *)
C3_PendingSiblingCompleted ==
    \A id \in ScanIDs :
        (/\ Visible(scans, id)
         /\ ~scans[id].deleted
         /\ ~scans[id].jobAdded
         /\ jobs[scans[id].job].state = "completed")
        => scans[id].status = ScanStatusCompleted

(* C4: the status of a stored scan only moves PENDING -> PENDING,          *)
(* PENDING -> COMPLETED or PENDING -> FAILED: a COMPLETED scan stays       *)
(* COMPLETED and a FAILED scan stays FAILED.                               *)
C4_TerminalStatusNeverReverts ==
    [][\A id \in ScanIDs :
        (Visible(scans, id) /\ scans[id].status # ScanStatusPending)
        => (scans'[id] # NoScan /\ scans'[id].status = scans[id].status)]_vars

\* a scan failed by the first run of the job and a sibling the retry completed
C4_Witness ==
    \E a, b \in ScanIDs :
        /\ Visible(scans, a) /\ scans[a].status = ScanStatusFailed
        /\ Visible(scans, b) /\ scans[b].status = ScanStatusCompleted
        /\ scans[b].attempts > 0

(* C5: Enqueue writes the scan row and the queue job atomically: a job is  *)
(* visible exactly when the scan row of the Enqueue that inserted it is,   *)
(* and nothing an Enqueue that returned an error wrote remains.            *)
C5_EnqueueAtomic ==
    /\ \A id \in ScanIDs :
          (scans[id] # NoScan /\ scans[id].jobAdded) =>
              /\ jobs[scans[id].job] # NoJob
              /\ jobs[scans[id].job].tx = scans[id].tx
    /\ \A j \in JobIDs :
          jobs[j] # NoJob =>
              \E id \in ScanIDs :
                  /\ scans[id] # NoScan /\ scans[id].jobAdded /\ scans[id].job = j
                  /\ (jobs[j].tx = Committed => scans[id].tx = Committed)
    /\ \A id \in ScanIDs :
          (scans[id] # NoScan /\ scans[id].tx # Committed) =>
              /\ enq[scans[id].tx].pc # "idle"
              /\ enq[scans[id].tx].scan = id

\* a committed PENDING scan together with its committed job, after another
\* Enqueue failed and was rolled back
C5_Witness ==
    \E id \in ScanIDs :
        /\ Visible(scans, id) /\ scans[id].jobAdded
        /\ jobs[scans[id].job].tx = Committed
        /\ scans[id].status = ScanStatusPending
        /\ \A o \in ScanIDs : o # id => scans[o] = NoScan
        /\ \A c \in Clients : enq[c].pc = "idle"
        /\ id > 1

(* C6: at any time at most one live (available, pending, running,          *)
(* retryable or scheduled) queue job exists per canonical URL.             *)
C6_OneLiveJobPerURL ==
    \A url \in URLs :
        Cardinality({j \in JobIDs :
            /\ jobs[j] # NoJob /\ jobs[j].tx = Committed
            /\ jobs[j].url = url
            /\ jobs[j].state \in LiveStates}) <= 1

(* C7: when a scan of the URL was COMPLETED by a job less than             *)
(* ResultCacheTTL before Enqueue is called, the scan Enqueue returns is    *)
(* COMPLETED with a completed scan's result and no new job was inserted.   *)
C7_FreshResultReused ==
    [][\A c \in Clients :
        (/\ enq[c].pc # "idle" /\ enq'[c].pc = "idle"
         /\ scans'[enq[c].scan] # NoScan
         /\ enq[c].fresh)
        => /\ scans'[enq[c].scan].status = ScanStatusCompleted
           /\ scans'[enq[c].scan].result # NoResult
           /\ ~enq[c].jobAdded]_vars

(* C8: when the queue stops retrying a job because MaxAttempts is used up  *)
(* (the job becomes discarded), no non-deleted scan of its URL is left     *)
(* PENDING.                                                                *)
C8_ExhaustedJobLeavesNoPending ==
    [][\A j \in JobIDs :
        (RunningJob(j) /\ jobs'[j].state = "discarded")
        => PendingScanCountByURL(scans', jobs[j].url) = 0]_vars

(* C9: updatePendingScansByURL with status FAILED and max_attempts M > 0   *)
(* sets FAILED only on the pending rows whose attempts after the increment *)
(* exceed M; the other pending rows stay PENDING.                          *)
C9_FailedOnlyAfterMaxAttempts ==
    [][\A id \in ScanIDs :
        (/\ Visible(scans, id) /\ scans[id].status = ScanStatusPending
         /\ scans'[id].status = ScanStatusFailed)
        => scans'[id].attempts > MaxAttempts]_vars

(* C10: when Scan fails with RATE_LIMITED no scan record is modified and   *)
(* Scan returns the error with the rate-limit status the submit response   *)
(* carried.                                                                *)
C10_RateLimitedLeavesScans ==
    [][\A j \in JobIDs :
        (/\ RunningJob(j) /\ jobs[j].pc = "submit"
         /\ jobs'[j].outcome = "ratelimited")
        => /\ scans' = scans
           /\ jobs'[j].rl = jobs'[j].sub]_vars

\* Scan has returned RATE_LIMITED while a scan of the URL is pending and untouched
C10_Witness ==
    \E j \in JobIDs :
        /\ RunningJob(j) /\ jobs[j].pc = "return" /\ jobs[j].outcome = "ratelimited"
        /\ \E id \in ScanIDs :
              /\ IsPendingRow(scans, id, jobs[j].url)
              /\ scans[id].attempts = 0 /\ scans[id].lastError = ""

(* C11: when Scan starts and no pending non-deleted scan of the job's URL  *)
(* exists, Scan returns CONFLICT with an empty rate-limit status, without  *)
(* calling the provider and without updating a scan; Work turns it into a  *)
(* cancellation and a cancelled job is never run again.                    *)
C11_NoPendingCancelsJob ==
    [][\A j \in JobIDs :
        /\ (/\ RunningJob(j) /\ jobs[j].pc = "count"
            /\ PendingScanCountByURL(scans, jobs[j].url) = 0
            /\ ScanCount(j))
           => /\ jobs'[j].outcome = "conflict"
              /\ jobs'[j].pc = "return"
              /\ jobs'[j].rl = ZeroStatus
              /\ scans' = scans
        /\ (/\ RunningJob(j) /\ jobs[j].pc = "return"
            /\ jobs[j].outcome = "conflict"
            /\ jobs'[j] # jobs[j])
           => jobs'[j].state = "cancelled"
        /\ (jobs[j] # NoJob /\ jobs[j].state = "cancelled")
           => jobs'[j] = jobs[j]]_vars

\* a job was cancelled after the user deleted the scan it was enqueued for
C11_Witness ==
    \E j \in JobIDs :
        /\ jobs[j] # NoJob /\ jobs[j].state = "cancelled"
        /\ \E id \in ScanIDs :
              /\ Visible(scans, id) /\ scans[id].deleted
              /\ scans[id].jobAdded /\ scans[id].job = j
              /\ scans[id].status = ScanStatusPending /\ scans[id].attempts = 0

(* C12: Work maps the outcome of Scan to exactly one queue action: nil     *)
(* completes the job, CONFLICT cancels it, RATE_LIMITED snoozes it for     *)
(* max(0, reset_at - now) without consuming an attempt, any other error is *)
(* returned for the queue to retry.                                        *)
C12_WorkMapsOutcome ==
    [][\A j \in JobIDs :
        (RunningJob(j) /\ jobs[j].pc = "return" /\ jobs'[j] # jobs[j]) =>
            CASE jobs[j].outcome = "ok" -> jobs'[j].state = "completed"
              [] jobs[j].outcome = "conflict" -> jobs'[j].state = "cancelled"
              [] jobs[j].outcome = "ratelimited" ->
                    /\ jobs'[j].state = "scheduled"
                    /\ jobs'[j].runAt >= now
                    /\ jobs'[j].runAt \in {now, jobs[j].rl.resetAt}
                    /\ jobs'[j].attempt = jobs[j].attempt - 1
              [] OTHER -> jobs'[j].state \in {"retryable", "discarded"}]_vars

\* Work maps a RATE_LIMITED result whose reset instant has already passed
\* (time.Until is negative), after an earlier attempt of the job was retried
C12_Witness ==
    \E j \in JobIDs :
        /\ RunningJob(j) /\ jobs[j].pc = "return"
        /\ jobs[j].outcome = "ratelimited"
        /\ jobs[j].rl.resetAt < now
        /\ jobs[j].attempt = MaxAttempts


(* C13: every call of reserveRL eventually returns, granted or with the    *)
(* error of its cancelled context; a blocked waiter waits on all three of  *)
(* the context, the wake signal and a timer for the reset_at it captured,  *)
(* so that it can re-evaluate the budget as soon as that instant is        *)
(* reached.                                                                *)
C13_ReserveEventuallyReturns ==
    /\ [](\A w \in Workers :
            wpc[w] = "waiting" =>
                /\ ENABLED reserveRLCancelled(w)
                /\ w \in WakeTargets
                /\ (now >= wResetAt[w] => ENABLED reserveRLTimer(w)))
    /\ \A w \in Workers :
            (wpc[w] \in {"reserve", "unlocked", "waiting"})
                ~> (wpc[w] \in {"scan", "idle"})

\* a waiter sleeps on the far-future reset of the cold start while the probe
\* is still in flight
C13_Witness ==
    \E w, v \in Workers :
        /\ wpc[w] = "waiting" /\ wResetAt[w] > MaxTime
        /\ wpc[v] = "scan"
        /\ ~learned

(* C14: when a Work invocation finishes and budget is available after      *)
(* requestFinished, the finish wakes a job that is blocked in reserveRL    *)
(* (between its unlock and the end of its select), whatever step of        *)
(* check-then-wait the waiter is at.                                       *)
C14_FinishWakesBlockedWaiter ==
    [][\A w \in Workers :
        (/\ wpc[w] = "finish" /\ wpc'[w] = "idle"
         /\ CanReserve(lastRLStatus', inFlightRequests', now)
         /\ \E v \in Workers : wpc[v] \in {"unlocked", "waiting"})
        => \E v \in Workers :
              /\ wpc[v] \in {"unlocked", "waiting"}
              /\ wpc'[v] = "reserve"]_vars

(* C15: cold start: until a requestFinished has delivered a status with a  *)
(* non-zero reset_at, at most one scan is in flight, however many jobs     *)
(* call Work.                                                              *)
C15_ColdStartSingleProbe ==
    ~learned =>
        /\ inFlightRequests <= 1
        /\ Cardinality({w \in Workers : wpc[w] \in {"scan", "finish"}}) <= 1

\* the probe is in flight and the other jobs are blocked behind it
C15_Witness ==
    /\ ~learned
    /\ inFlightRequests = 1
    /\ \E w \in Workers : wpc[w] = "scan"
    /\ Cardinality({w \in Workers : wpc[w] \in {"unlocked", "waiting"}}) = NumWorkers - 1

(* C16: a soft-deleted scan is invisible to every later operation: it is   *)
(* not returned by scanByID or userScans, not modified by updateScanByID   *)
(* or updatePendingScansByURL, a repeated deleteScan finds nothing, and    *)
(* the row never changes again.                                            *)
C16_DeletedScanInvisible ==
    /\ [](\A id \in ScanIDs :
            (Visible(scans, id) /\ scans[id].deleted) =>
                /\ \A u \in Users :
                      /\ ScanByID(scans, u, id) = NoScan
                      /\ id \notin UserScansMatch(scans, u)
                      /\ ~DeleteScanFound(scans, u, id)
                      /\ ~ENABLED Delete(u, id)
                /\ \A r \in Results :
                      UpdateScanByID(scans, id, ScanStatusCompleted, r, now) = scans
                /\ UpdatePendingScansByURL(scans, scans[id].url, FailedUpdates, now)[id]
                      = scans[id]
                /\ \A r \in Results :
                      UpdatePendingScansByURL(scans, scans[id].url,
                                              CompletedUpdates(r), now)[id] = scans[id])
    /\ [][\A id \in ScanIDs :
            (Visible(scans, id) /\ scans[id].deleted) => scans'[id] = scans[id]]_vars

\* the job completed the scan of the other user after the first scan, still
\* pending, had been deleted: the fan-in update passed over the deleted row
C16_Witness ==
    \E id, o \in ScanIDs :
        /\ Visible(scans, id) /\ scans[id].deleted
        /\ scans[id].status = ScanStatusPending /\ scans[id].attempts = 0
        /\ scans[id].jobAdded
        /\ Visible(scans, o) /\ ~scans[o].jobAdded /\ scans[o].job = scans[id].job
        /\ scans[o].status = ScanStatusCompleted /\ scans[o].attempts > 0

(* C17: Result and Delete on a scan owned by another user answer NOT_FOUND *)
(* exactly as for an id that does not exist, and no step of Delete changes *)
(* a scan of another user.                                                 *)
C17_OtherUsersScanNotFound ==
    /\ [](\A id \in ScanIDs : \A u \in Users :
            (Visible(scans, id) /\ scans[id].user # u) =>
                LET absent == [scans EXCEPT ![id] = NoScan] IN
                /\ Result(scans, u, id) = Result(absent, u, id)
                /\ Result(scans, u, id).err = "NOT_FOUND"
                /\ DeleteResponse(scans, u, id) = DeleteResponse(absent, u, id)
                /\ DeleteResponse(scans, u, id).err = "NOT_FOUND")
    /\ [][\A u \in Users : \A id \in ScanIDs :
            Delete(u, id) =>
                /\ scans[id].user = u
                /\ \A o \in ScanIDs :
                      (scans[o] # NoScan /\ scans[o].user # u) => scans'[o] = scans[o]]_vars

\* one user has deleted their own scan while the scan another user has for
\* the same URL is stored and untouched
C17_Witness ==
    \E id, o \in ScanIDs :
        /\ Visible(scans, id) /\ scans[id].deleted
        /\ Visible(scans, o) /\ ~scans[o].deleted
        /\ scans[o].user # scans[id].user
        /\ scans[o].url = scans[id].url

----------------------------------------------------------------------------
----------------------------------------------------------------------------
(* C19: every response of NewError with status 500 and code INTERNAL       *)
(* carries the message "internal error", whatever the kind, message and    *)
(* cause of the error: neither the cause text nor the message of a         *)
(* semantic error appears in such a response.                              *)
C19_InternalResponseIsGeneric ==
    api.pc = "done" /\ api.resp.status = 500 /\ api.resp.code = "INTERNAL" =>
        api.resp.message = "internal error"

----------------------------------------------------------------------------
----------------------------------------------------------------------------
(* C21: URL normalization is idempotent: whenever NormalizeURL succeeds on *)
(* a string, NormalizeURL succeeds on its output and returns that output   *)
(* unchanged.                                                              *)
C21_NormalizeIdempotent ==
    norm.pc = "twice" => norm.again.ok /\ norm.again.url = norm.out.url

----------------------------------------------------------------------------
(* C23: for a limit of at least 1, UserScans(user, cursor, limit) returns  *)
(* at most limit scans, each a non-deleted scan of that user with          *)
(* created_at strictly below a non-zero cursor, ordered by created_at      *)
(* descending and id descending with no matching scan left out before the  *)
(* last returned one; it returns a next-cursor exactly when matching scans *)
(* remain beyond the page, and none with an empty page.                    *)
C23_Matching ==
    {id \in RowIDs :
        /\ page.table[id].user = page.user
        /\ ~page.table[id].deleted
        /\ (page.cursor # ZeroTime => page.table[id].createdAt < page.cursor)}

C23_PageIsRight ==
    LET r == page.result
        T == page.table
        inPage == {r.scans[i] : i \in 1..Len(r.scans)}
        Above(a, b) == \/ T[a].createdAt > T[b].createdAt
                       \/ T[a].createdAt = T[b].createdAt /\ a > b
    IN  /\ ~r.panicked
        /\ Len(r.scans) <= page.limit
        /\ inPage \subseteq C23_Matching
        /\ Cardinality(inPage) = Len(r.scans)
        /\ \A i, j \in 1..Len(r.scans) : i < j => Above(r.scans[i], r.scans[j])
        /\ \A a \in inPage, b \in C23_Matching \ inPage : Above(a, b)
        /\ r.hasNext <=> (C23_Matching \ inPage # {})
        /\ Len(r.scans) = 0 => ~r.hasNext

----------------------------------------------------------------------------
(* C22: in every reachable state a scan with status COMPLETED has a        *)
(* non-zero result and a scan with status FAILED has a non-empty           *)
(* last_error, whether the fan-in update of the worker or the cache        *)
(* fast-path of Enqueue set the status.                                    *)
C22_TerminalScanHasOutcome ==
    \A id \in ScanIDs :
        scans[id] # NoScan =>
            /\ scans[id].status = ScanStatusCompleted => scans[id].result # NoResult
            /\ scans[id].status = ScanStatusFailed => scans[id].lastError # ""

\* a scan completed by the worker and a later one completed by the fast-path
C22_Witness ==
    \E a, b \in ScanIDs :
        /\ Visible(scans, a) /\ scans[a].status = ScanStatusCompleted
        /\ scans[a].attempts > 0
        /\ scans[b] # NoScan /\ scans[b].status = ScanStatusCompleted
        /\ scans[b].attempts = 0
        /\ scans[b].result = scans[a].result

----------------------------------------------------------------------------
(* C24: the attempts counter of a scan never decreases.  A step raises it, *)
(* by exactly 1, only when it is the fan-in update of a job of the scan's  *)
(* URL whose submit and poll succeeded or failed with an error other than  *)
(* RATE_LIMITED, applied while the scan is pending and not deleted; a      *)
(* successful completion always raises it and every other step leaves it   *)
(* alone.  A scan the worker completes from attempts 0 has attempts 1.     *)
C24_AttemptsCountFanIns ==
    [][\A id \in ScanIDs :
        (scans[id] # NoScan /\ scans'[id] # NoScan) =>
            LET before == scans[id].attempts
                after  == scans'[id].attempts
                fanIn(j) == /\ RunningJob(j) /\ jobs[j].pc = "submit"
                            /\ jobs[j].url = scans[id].url
                            /\ jobs'[j].pc = "return"
                            /\ IsPendingRow(scans, id, jobs[j].url)
            IN  /\ after \in {before, before + 1}
                /\ after = before + 1 =>
                      \E j \in JobIDs : fanIn(j) /\ jobs'[j].outcome \in {"ok", "error"}
                /\ (\E j \in JobIDs : fanIn(j) /\ jobs'[j].outcome = "ok") =>
                      after = before + 1
                /\ (\E j \in JobIDs : fanIn(j) /\ jobs'[j].outcome \in {"ratelimited", "conflict"}) =>
                      after = before
                /\ (scans[id].status = ScanStatusPending
                    /\ scans'[id].status # ScanStatusPending /\ after = before) =>
                      (\E c \in Clients : scans[id].tx = c)
                /\ (before = 0 /\ after # 0 /\ scans'[id].status = ScanStatusCompleted) =>
                      after = 1]_vars

\* a scan of a completed job, completed by the fan-in update with attempts 1
C24_Witness ==
    \E id \in ScanIDs, j \in JobIDs :
        /\ Visible(scans, id) /\ scans[id].status = ScanStatusCompleted
        /\ scans[id].attempts = 1
        /\ jobs[j] # NoJob /\ jobs[j].url = scans[id].url
        /\ jobs[j].state = "completed"

----------------------------------------------------------------------------
(* C25: within one rate-limit window the merge is pessimistic: when        *)
(* requestFinished receives a status whose reset_at equals the stored one, *)
(* the stored reset_at and limit stay and the stored remaining becomes the *)
(* minimum of the stored and the received remaining, so it never increases *)
(* and the order of the finish calls of a window does not matter.          *)
C25_SameWindowKeepsMinimum ==
    [][\A w \in Workers :
        (/\ wpc[w] = "finish" /\ wpc'[w] = "idle"
         /\ lastRLStatus # NoStatus
         /\ wStatus[w].resetAt # ZeroTime
         /\ wStatus[w].resetAt = lastRLStatus.resetAt)
        => /\ lastRLStatus'.resetAt = lastRLStatus.resetAt
           /\ lastRLStatus'.remaining =
                 (IF wStatus[w].remaining < lastRLStatus.remaining
                    THEN wStatus[w].remaining ELSE lastRLStatus.remaining)
           /\ lastRLStatus'.remaining <= lastRLStatus.remaining]_vars

\* a response of the stored window that reports more than the stored
\* remaining is about to be merged: it arrives after a later response
C25_Witness ==
    \E w \in Workers :
        /\ wpc[w] = "finish"
        /\ lastRLStatus # NoStatus
        /\ wStatus[w].resetAt = lastRLStatus.resetAt
        /\ wStatus[w].remaining > lastRLStatus.remaining

----------------------------------------------------------------------------
(* C26: once a real status is stored, the stored reset_at never moves back *)
(* to an earlier instant: a late response of an older window does not      *)
(* replace the status of a newer window.                                   *)
C26_FreshestWindowKept ==
    [][learned => lastRLStatus'.resetAt >= lastRLStatus.resetAt]_vars

----------------------------------------------------------------------------
(* C27: requestFinished with a status whose reset_at is zero leaves the    *)
(* stored status unchanged; it decrements inFlight, wakes at most one      *)
(* waiter and changes nothing else of the limiter.                         *)
C27_ZeroStatusLeavesLast ==
    [][\A w \in Workers :
        (wpc[w] = "finish" /\ wpc'[w] = "idle" /\ wStatus[w].resetAt = ZeroTime)
        => /\ lastRLStatus' = lastRLStatus
           /\ learned' = learned
           /\ inFlightRequests' = (IF inFlightRequests > 0 THEN inFlightRequests - 1 ELSE 0)
           /\ Cardinality({v \in Workers \ {w} : wpc'[v] # wpc[v]}) <= 1
           /\ \A v \in Workers \ {w} :
                 wpc'[v] # wpc[v] => (wpc[v] = "waiting" /\ wpc'[v] = "reserve")]_vars

\* a scan that never reached the provider is finishing under a learned status
C27_Witness ==
    \E w \in Workers :
        /\ wpc[w] = "finish" /\ wStatus[w] = ZeroStatus
        /\ learned /\ lastRLStatus.resetAt # ZeroTime

----------------------------------------------------------------------------
(* C28: inFlightRequests always equals the number of Work invocations that *)
(* hold a reservation (granted, requestFinished not yet called): it is     *)
(* never negative, the clamp of requestFinished is never taken, and it is  *)
(* 0 when no scan is running.                                              *)
C28_InFlightCountsReservations ==
    /\ inFlightRequests = Cardinality({w \in Workers : wpc[w] \in {"scan", "finish"}})
    /\ inFlightRequests >= 0
    /\ \A w \in Workers : wpc[w] = "finish" => inFlightRequests > 0

\* two reservations are held, one scan running and one about to be released
C28_Witness ==
    /\ inFlightRequests = 2
    /\ \E w, v \in Workers : wpc[w] = "scan" /\ wpc[v] = "finish"

----------------------------------------------------------------------------
(* C29: a requestFinished call wakes at most one goroutine, and only one   *)
(* that is receiving in the select of reserveRL at that moment; a waiter   *)
(* leaves its select only through such a wake, its timer or its context;   *)
(* requestFinished can always run to its end.                              *)
C29_WakesAtMostOne ==
    /\ [](\A w \in Workers : wpc[w] = "finish" => ENABLED requestFinished(w))
    /\ [][\A w \in Workers :
            (wpc[w] = "finish" /\ wpc'[w] = "idle") =>
                LET woken == {v \in Workers \ {w} : wpc'[v] # wpc[v]}
                IN  /\ Cardinality(woken) <= 1
                    /\ \A v \in woken : wpc[v] = "waiting" /\ wpc'[v] = "reserve"
                    /\ (\A v \in Workers : wpc[v] # "waiting") => woken = {}]_vars
    /\ [][\A v \in Workers :
            (wpc[v] = "waiting" /\ wpc'[v] # "waiting") =>
                \/ wpc'[v] = "reserve"
                   /\ \E w \in Workers \ {v} : wpc[w] = "finish" /\ wpc'[w] = "idle"
                \/ wpc'[v] = "reserve" /\ now >= wResetAt[v]
                \/ wpc'[v] = "idle"]_vars

\* a request is finishing while two goroutines receive in their select
C29_Witness ==
    \E w \in Workers :
        /\ wpc[w] = "finish"
        /\ Cardinality(WakeTargets) >= 2

----------------------------------------------------------------------------
(* C30: with a stored remaining of 0 no reservation is granted until now   *)
(* is after the stored reset_at; from then on the budget is the stored     *)
(* limit: a pass of reserveRL grants exactly when limit - inFlight > 0,    *)
(* and a waiter's timer is due from the reset_at it captured.              *)
C30_WaitsForResetThenLimit ==
    /\ [](\A w \in Workers :
            (wpc[w] = "reserve" /\ lastRLStatus # NoStatus /\ lastRLStatus.remaining = 0) =>
                /\ ENABLED reserveRLGrant(w) <=>
                      (now > lastRLStatus.resetAt
                       /\ lastRLStatus.limit - inFlightRequests > 0)
                /\ ENABLED reserveRLBlock(w) <=> ~ENABLED reserveRLGrant(w))
    /\ [](\A w \in Workers :
            (wpc[w] = "waiting" /\ now >= wResetAt[w]) => ENABLED reserveRLTimer(w))
    /\ [][\A w \in Workers :
            (/\ wpc[w] = "reserve" /\ wpc'[w] = "scan"
             /\ lastRLStatus # NoStatus /\ lastRLStatus.remaining = 0)
            => /\ now > lastRLStatus.resetAt
               /\ lastRLStatus.limit - inFlightRequests > 0]_vars

\* the window of a used-up budget has elapsed, nothing is in flight, and a job
\* that waited for the reset is granted
C30_Witness ==
    /\ learned
    /\ lastRLStatus.remaining = 0
    /\ now > lastRLStatus.resetAt
    /\ inFlightRequests = 1
    /\ \E w \in Workers : wpc[w] = "scan" /\ wGrantReal[w]
    /\ provWindow # WindowOf(now)


(* C31: when the job context is cancelled while reserveRL waits, Work      *)
(* returns a plain error, which the queue retries (or discards once the    *)
(* attempts are used up) and neither cancels nor snoozes; the invocation   *)
(* goes from the wait straight to its return, without Scan and without     *)
(* requestFinished, and none of its steps, from its first pass of the      *)
(* loop to the return, changes inFlightRequests or lastRLStatus.           *)
C31_CancelledWaitIsPlainError ==
    [][\A w \in Workers :
        /\ (wpc[w] = "waiting" /\ wpc'[w] \notin {"waiting", "reserve"})
            => /\ wpc'[w] = "idle"
               /\ wRet'[w] = WorkReturn_ReserveErr
               /\ \A a \in 1..MaxAttempts :
                     JobStateAfter([outcome |-> wRet'[w], attempt |-> a])
                        \in {"retryable", "discarded"}
               /\ inFlightRequests' = inFlightRequests
               /\ lastRLStatus' = lastRLStatus
        /\ (\/ wpc[w] = "reserve" /\ wpc'[w] = "unlocked"
            \/ wpc[w] = "unlocked" /\ wpc'[w] = "waiting")
            => /\ inFlightRequests' = inFlightRequests
               /\ lastRLStatus' = lastRLStatus
        /\ (wRet'[w] = WorkReturn_ReserveErr /\ wRet[w] # WorkReturn_ReserveErr)
            => wpc[w] = "waiting"]_vars

\* a Work invocation returned the reservation error while the scan of
\* another invocation is in flight, and the counter still counts that scan
C31_Witness ==
    \E w, v \in Workers :
        /\ wpc[w] = "idle" /\ wRet[w] = WorkReturn_ReserveErr
        /\ wpc[v] \in {"scan", "finish"}
        /\ inFlightRequests = 1
        /\ lastRLStatus # NoStatus

(* C32: what reserveRL reads of lastRLStatus for its "waiting" log record   *)
(* is what its pass of the loop saw while it held the mutex: the resetAt    *)
(* it logs is the resetAt it captured before the unlock.                    *)
C32_LoggedStateIsLockedState ==
    \A w \in Workers :
        wpc[w] = "waiting" => wLog[w].resetAt = wResetAt[w]

----------------------------------------------------------------------------
(* C33: UpdatePendingScansByURL(url, updates) changes all and only the     *)
(* rows that are PENDING, not soft-deleted and carry exactly that url:     *)
(* each of them gets attempts + 1 and updated_at set to the time of the    *)
(* statement, and keeps its identity; every row of another url, every      *)
(* COMPLETED or FAILED row and every soft-deleted row comes out equal to   *)
(* what it was.                                                            *)
C33_UpdatesAllAndOnlyPending ==
    upd.pc = "done" =>
        \A id \in ScanIDs :
            LET row == upd.table[id]
                out == upd.out[id]
            IN  IF /\ row # NoScan
                   /\ row.status = ScanStatusPending
                   /\ ~row.deleted
                   /\ row.url = upd.url
                THEN /\ out.attempts = row.attempts + 1
                     /\ out.updatedAt = upd.t
                     /\ out.url = row.url /\ out.user = row.user
                     /\ out.deleted = row.deleted
                ELSE out = row

\* the statement updated a pending row of its url and left a pending row of
\* the other url as it was
C33_Witness ==
    /\ upd.pc = "done"
    /\ \E id, o \in ScanIDs :
          /\ upd.table[id] # NoScan /\ upd.table[o] # NoScan
          /\ upd.table[id].url = upd.url /\ upd.out[id] # upd.table[id]
          /\ upd.table[o].url # upd.url
          /\ upd.table[o].status = ScanStatusPending /\ ~upd.table[o].deleted
          /\ upd.out[o] = upd.table[o]

----------------------------------------------------------------------------
\* what a returned call of submitURLAndPoll looks like, leaving aside the
\* polls issued on a context that is already done
C34_ReturnsAsStated ==
    poll.pc = "done" =>
        /\ poll.submits = 1
        /\ poll.rl = poll.subRL
        /\ poll.ret \in {"submit error", "result", "timeout"}
        /\ poll.ret = "submit error" => poll.polls = 0
        /\ poll.ret = "result" => (poll.polls >= 1 /\ poll.k = poll.polls - 1)
        /\ poll.ret = "timeout" =>
              (poll.polls >= 1 /\ poll.k = poll.polls /\ PollCtxDone(poll))

(* C34: submitURLAndPoll always terminates; it submits exactly once; a     *)
(* failed submit returns its error and the status it carried without any   *)
(* poll; otherwise the call returns the first successful poll, or, when    *)
(* every poll fails, a timeout error once the poll deadline (30 s after    *)
(* the start of polling) or the ambient context fires, and no poll is      *)
(* issued once that context is done; the status returned is always the     *)
(* one of the submit response.                                             *)
C34_SubmitOncePollUntilDone ==
    /\ [](C34_ReturnsAsStated)
    /\ [](poll.latePolls = 0)
    /\ <>(poll.pc = "done")

(* C35: the interval of the wait after the k-th failed poll is             *)
(* min(2 s * 2^(k-1), 10 min): 2 s at first, doubled after every wait,     *)
(* never above the cap; and the time spent polling, from the creation of   *)
(* the poll context to the return, never exceeds the 30 s poll timeout.    *)
C35_BackoffDoublesWithinTimeout ==
    /\ \A k \in 1..MaxFailedPolls :
          /\ DelayAfter(k) = IF 2 * 2^(k - 1) < 600 THEN 2 * 2^(k - 1) ELSE 600
          /\ DelayAfter(k) <= scanResultPollIntervalMax
    /\ \A i \in 1..Len(poll.waits) : poll.waits[i] = DelayAfter(i)
    /\ poll.pc = "select" => poll.delay = DelayAfter(poll.k)
    /\ poll.e <= scanResultPollTimeout

\* a call that timed out after four failed polls and the waits of 2, 4, 8 and
\* (cut by the deadline) 16 seconds
C35_Witness ==
    /\ poll.pc = "done" /\ poll.ret = "timeout"
    /\ poll.waits = <<2, 4, 8, 16>>
    /\ poll.e = scanResultPollTimeout
    /\ ~poll.amb

----------------------------------------------------------------------------
(* C36: for every HTTP 429 response to a submit, SubmitURL returns an      *)
(* error of kind RATE_LIMITED together with the RateLimitStatus parsed     *)
(* from the response headers, so that Scan marks no scan failed and Work   *)
(* snoozes the job (the queue reschedules it without counting a failed     *)
(* attempt).                                                               *)
C36_Every429IsRateLimited ==
    (sub.pc = "done" /\ sub.resp.sent /\ sub.resp.code = 429) =>
        /\ sub.out.kind = "ratelimited"
        /\ sub.out.rl = ParseRateLimit(sub.resp.h).rl
        /\ ~MarksFailed(sub.out.kind)
        /\ \A a \in 1..MaxAttempts :
              JobStateAfter([outcome |-> sub.out.kind, attempt |-> a]) = "scheduled"

----------------------------------------------------------------------------
(* C37: Enqueue with a URL that fails normalization returns an error of    *)
(* kind BAD_REQUEST before any transaction is opened: the call stores no   *)
(* scan row, enqueues no job and leaves the storage as it was.             *)
C37_InvalidURLRejectedBeforeTx ==
    [][\A c \in Clients :
        (/\ enq[c].pc = "idle" /\ enq'[c].pc = "idle"
         /\ enq'[c] # enq[c]
         /\ "raw" \in DOMAIN enq'[c]
         /\ ~NormalizeURL(enq'[c].raw).ok)
        => /\ KindOf(enq'[c].err) = "BAD_REQUEST"
           /\ KindStatus(KindOf(enq'[c].err)) = 400
           /\ scans' = scans /\ jobs' = jobs
           /\ \A id \in ScanIDs : scans'[id] = NoScan \/ scans'[id].tx # c
           /\ \A j \in JobIDs : jobs'[j] = NoJob \/ jobs'[j].tx # c]_vars

\* a client whose Enqueue of an invalid URL was rejected while a scan of the
\* other client is stored and pending
C37_Witness ==
    \E c \in Clients, id \in ScanIDs :
        /\ enq[c].pc = "idle" /\ enq[c] # IdleEnq
        /\ ~NormalizeURL(enq[c].raw).ok
        /\ Visible(scans, id) /\ scans[id].user # UserOf(c)
        /\ scans[id].status = ScanStatusPending

----------------------------------------------------------------------------
(* C38: paging is complete and free of duplicates: over a fixed set of     *)
(* scans, a client that starts with the empty cursor and passes every      *)
(* next-cursor it gets back until none is returned has received every      *)
(* non-deleted scan of the user exactly once, whatever the created_at      *)
(* values are, equal ones and ones within the same second included.        *)
C38_PagingCompleteNoDuplicates ==
    walk.pc = "end" =>
        \A id \in RowIDs :
            LET times == Cardinality({i \in 1..Len(walk.seen) : walk.seen[i] = id})
            IN  IF walk.table[id].user = walk.user /\ ~walk.table[id].deleted
                THEN times = 1
                ELSE times = 0

----------------------------------------------------------------------------
(* C39: whenever Enqueue completes a new scan from the cache (the          *)
(* duplicate-job path), the completed scan whose result it copies was      *)
(* completed no longer ago than ResultCacheTTL, whatever state the         *)
(* deduplicating job is in.                                                *)
C39_CopiedResultIsFresh ==
    [][\A c \in Clients :
        (/\ enq[c].pc = "lookup" /\ enq'[c].pc = "commit"
         /\ scans'[enq[c].scan].status = ScanStatusCompleted)
        => \A l \in LastCompletedScansByURL(scans, enq[c].url, c) :
              now - scans[l].updatedAt <= ResultCacheTTL]_vars

----------------------------------------------------------------------------
(* C40: the rate-limit gate never closes for good: whatever status the     *)
(* provider reported (limit >= 0, remaining >= 0, any reset_at), in every  *)
(* reachable state of the limiter in which no scan is in flight and the    *)
(* stored reset_at has passed, a call of reserveRL is granted.             *)
C40_GateReopens ==
    \A w \in Workers :
        (/\ wpc[w] = "reserve"
         /\ inFlightRequests = 0
         /\ \A v \in Workers : wpc[v] \notin {"scan", "finish"}
         /\ lastRLStatus # NoStatus
         /\ now > lastRLStatus.resetAt)
        => ENABLED reserveRLGrant(w)

====
